---- MODULE Spec2Model ----
(***************************************************************************)
(* Model of the main process of the privacy scanner (electron/main.js):    *)
(* the volume prober, the recoverability scorer, the hidden-file scanner   *)
(* and the report signer/verifier, each an ipcMain handler.                *)
(***************************************************************************)
EXTENDS Integers, Sequences, FiniteSets, TLC

VARIABLES
    platform,        \* os.platform() of the machine
    mountsReadable,  \* whether /proc/mounts can be read (linux)
    volumes,         \* the machine's volumes: drive letters / mount lines / root
    drivesResult,    \* resolved value of the last 'get-drives' call
    riskProbes,      \* what the probes of the last score call observed
    riskResult,      \* resolved value of the last 'compute-recoverability-score'
    scoreIn,         \* factor values handed to the scoring arithmetic
    scoreOut,        \* score and risk computed from scoreIn
    unixFs,          \* the directory tree under the scan path (unix branch)
    scanHome,        \* whether scanPath === os.homedir()
    winFs,           \* what the four win32 techniques find under the scan path
    tech,            \* where each win32 technique stands
    hiddenFiles,     \* the array the discovery techniques push into
    hiddenResult,    \* resolved value of the last 'scan-hidden-files' call
    jsonFiles,       \* scan-report-<id>.json files of the reports directory
    pdfFiles,        \* ids of the scan-report-<id>.pdf files written
    signatures,      \* the (key, message) of every signature crypto.sign made
    nextId,          \* number of 'generate-scan-report' calls so far
    genCalls,        \* the 'generate-scan-report' calls waiting for a file write
    genResult,       \* resolved value of the 'generate-scan-report' call that
                     \* returned last
    verifyResult,    \* resolved value of the last 'verify-report' call
    wipe,            \* each 'simulate-secure-wipe' call: its timer and its events
    senderAlive,     \* whether the window still exists, and with it the process
    opCall,          \* a boundary operation waiting for the subprocesses it starts
    eventResult,     \* resolved value of the last 'scan-event-logs' call
    wevtutil,        \* what wevtutil answered during that call
    previewIn,       \* the file 'preview-file' is asked to show
    previewResult,   \* resolved value of the last 'preview-file' call
    browserFs,       \* the browser data directories of the home directory
    browserResult,   \* resolved value of the last 'scan-browser-profiles' call
    spaceIn,         \* what statfs answers for the volume getDriveSpace is asked about
    spaceOut         \* the formatted fields getDriveSpace returned for it

volumeVars == <<platform, mountsReadable, volumes, drivesResult>>
riskVars == <<riskProbes, riskResult>>
scoreVars == <<scoreIn, scoreOut>>
hiddenVars == <<unixFs, scanHome, winFs, tech, hiddenFiles, hiddenResult>>
reportVars == <<jsonFiles, pdfFiles, signatures, nextId, genCalls, genResult, verifyResult>>
wipeVars == <<wipe, senderAlive>>
execVars == <<opCall>>
eventVars == <<eventResult, wevtutil>>
previewVars == <<previewIn, previewResult>>
browserVars == <<browserFs, browserResult>>
spaceVars == <<spaceIn, spaceOut>>
vars == <<volumeVars, riskVars, scoreVars, hiddenVars, reportVars, wipeVars, execVars,
          eventVars, previewVars, browserVars, spaceVars>>

\* What the handlers of one component leave alone.
exceptVolumes ==
    <<riskVars, scoreVars, hiddenVars, reportVars, wipeVars, execVars, eventVars, previewVars, browserVars, spaceVars>>
exceptRisk ==
    <<volumeVars, scoreVars, hiddenVars, reportVars, wipeVars, execVars, eventVars, previewVars, browserVars, spaceVars>>
exceptScore ==
    <<volumeVars, riskVars, hiddenVars, reportVars, wipeVars, execVars, eventVars, previewVars, browserVars, spaceVars>>
exceptHidden ==
    <<volumeVars, riskVars, scoreVars, reportVars, wipeVars, execVars, eventVars, previewVars, browserVars, spaceVars>>
exceptReport ==
    <<volumeVars, riskVars, scoreVars, hiddenVars, wipeVars, execVars, eventVars, previewVars, browserVars, spaceVars>>
exceptWipe ==
    <<volumeVars, riskVars, scoreVars, hiddenVars, reportVars, execVars, eventVars, previewVars, browserVars, spaceVars>>
exceptExec == <<riskVars, scoreVars, hiddenVars, reportVars, wipeVars, eventVars, previewVars, browserVars, spaceVars>>
exceptPreview ==
    <<volumeVars, riskVars, scoreVars, hiddenVars, reportVars, wipeVars, execVars,
      eventVars, browserVars, spaceVars>>
exceptBrowser ==
    <<volumeVars, riskVars, scoreVars, hiddenVars, reportVars, wipeVars, execVars,
      eventVars, previewVars, spaceVars>>
exceptSpace ==
    <<volumeVars, riskVars, scoreVars, hiddenVars, reportVars, wipeVars, execVars,
      eventVars, previewVars, browserVars>>
exceptEvent ==
    <<volumeVars, riskVars, scoreVars, hiddenVars, reportVars, wipeVars, execVars, previewVars, browserVars, spaceVars>>

----------------------------------------------------------------------------
(* Bounds of the model *)

MaxVolumes == 2
MaxSize == 2         \* largest file size of the modelled file systems
MaxTreeDepth == 4    \* nesting of dot-directories below the scan path
MaxItems == 1        \* candidates of a win32 technique in the small file systems
MaxReports == 2      \* calls of 'generate-scan-report' in one run
MaxTampered == 1     \* reports in the directory when a byte of one is changed
MaxWipes == 2        \* concurrent calls of 'simulate-secure-wipe'
MaxFileLen == 2      \* bytes of a previewed file that are not plain letters
MaxProfiles == 2     \* entries of one browser data directory

StatfsBlocks == {0, 4}
BlockSizes == {4}
Platforms == {"win32", "linux", "darwin", "freebsd"}

Min(a, b) == IF a < b THEN a ELSE b
Max(a, b) == IF a > b THEN a ELSE b

----------------------------------------------------------------------------
(* Numbers: the IEEE 754 doubles of the arithmetic on sizes *)

\* A positive double is (h * Limb^2 + m * Limb + l) * 2^e with a significand
\* of 53 bits: Limb \div 4 <= h < Limb \div 2, m and l below Limb.
Limb == 2^18
ZeroDouble == [zero |-> TRUE, h |-> 0, m |-> 0, l |-> 0, e |-> 0]

\* n more bits of the binary expansion of a quotient with remainder r < den.
RECURSIVE DivBits(_, _, _, _)
DivBits(q, r, den, n) ==
    IF n = 0 THEN [q |-> q, r |-> r]
    ELSE IF 2 * r >= den THEN DivBits(2 * q + 1, 2 * r - den, den, n - 1)
         ELSE DivBits(2 * q, 2 * r, den, n - 1)

\* num * 2^k for the least k with den <= num * 2^k.
RECURSIVE ScaleNum(_, _, _)
ScaleNum(num, den, k) ==
    IF num >= den THEN [num |-> num, den |-> den, k |-> k]
    ELSE ScaleNum(2 * num, den, k + 1)

\* den * 2^j for the greatest j with den * 2^j <= num.
RECURSIVE ScaleDen(_, _, _)
ScaleDen(num, den, k) ==
    IF 2 * den > num THEN [num |-> num, den |-> den, k |-> k]
    ELSE ScaleDen(num, 2 * den, k - 1)

\* The next double above d.
NextUp(d) ==
    IF d.l + 1 < Limb THEN [d EXCEPT !.l = @ + 1]
    ELSE IF d.m + 1 < Limb THEN [d EXCEPT !.l = 0, !.m = @ + 1]
    ELSE IF d.h + 1 < Limb \div 2 THEN [d EXCEPT !.l = 0, !.m = 0, !.h = @ + 1]
    ELSE [d EXCEPT !.l = 0, !.m = 0, !.h = Limb \div 4, !.e = @ + 1]

\* Round to nearest, ties to even: d is the result cut off, above and tie say
\* where the cut-off part lies with respect to half a unit of the last place.
RoundToEven(d, above, tie) ==
    IF above \/ (tie /\ d.l % 2 = 1) THEN NextUp(d) ELSE d

\* The double num / den, for integers 0 <= num and 0 < den below 2^30.
DoubleDiv(num, den) ==
    IF num = 0 THEN ZeroDouble
    ELSE LET s == IF num >= den THEN ScaleDen(num, den, 0) ELSE ScaleNum(num, den, 0)
             hi == DivBits(1, s.num - s.den, s.den, 16)
             mid == DivBits(0, hi.r, s.den, 18)
             lo == DivBits(0, mid.r, s.den, 18)
         IN  RoundToEven([zero |-> FALSE, h |-> hi.q, m |-> mid.q, l |-> lo.q,
                          e |-> 0 - s.k - 52],
                         2 * lo.r > s.den, 2 * lo.r = s.den)

\* The double d * 100.
DoubleTimes100(d) ==
    IF d.zero THEN ZeroDouble
    ELSE LET p0 == d.l * 100
             p1 == d.m * 100 + p0 \div Limb
             p2 == d.h * 100 + p1 \div Limb
             cut == IF p2 >= 2^23 THEN 2^7 ELSE 2^6
             lo == p0 % Limb
             mid == p1 % Limb
         IN  RoundToEven([zero |-> FALSE,
                          h |-> p2 \div cut,
                          m |-> mid \div cut + (p2 % cut) * (Limb \div cut),
                          l |-> lo \div cut + (mid % cut) * (Limb \div cut),
                          e |-> d.e + (IF p2 >= 2^23 THEN 7 ELSE 6)],
                         lo % cut > cut \div 2, lo % cut = cut \div 2)

\* The integer nearest to d * c, the larger of two equally near, for a double
\* d below 2^16 and an integer 0 < c <= 100.
Nearest(d, c) ==
    IF d.zero \/ 0 - d.e - 36 > 26 THEN 0
    ELSE LET q0 == d.l * 2 * c
             q1 == d.m * 2 * c + q0 \div Limb
             q2 == d.h * 2 * c + q1 \div Limb
         IN  (q2 + 2^(0 - d.e - 36)) \div 2^(0 - d.e - 35)

\* Math.round(d)
MathRound(d) == Nearest(d, 1)

\* d.toFixed(digits), in units of 10^-digits
toFixed(d, digits) == Nearest(d, 10^digits)

----------------------------------------------------------------------------
(* The machine: volumes as the operating system reports them *)

\* kind "skip": a drive letter whose stat fails (win32), a mount line whose
\* device is not /dev/* or is a loop device (linux).
SkippedVolume ==
    [kind |-> "skip", statfs |-> "fail", blocks |-> 0, bavail |-> 0, bsize |-> 0,
     enc |-> "error"]

VolumeEnvs ==
    {SkippedVolume}
    \cup { [kind |-> "ok", statfs |-> "fail", blocks |-> 0, bavail |-> 0,
            bsize |-> 0, enc |-> e] : e \in {"on", "off", "error"} }
    \cup { [kind |-> "ok", statfs |-> "ok", blocks |-> b, bavail |-> a,
            bsize |-> s, enc |-> e] :
              b \in StatfsBlocks, a \in 0..4, s \in BlockSizes,
              e \in {"on", "off", "error"} }

VolumeLists ==
    UNION { [1..n -> { v \in VolumeEnvs : v.bavail <= v.blocks }] : n \in 1..MaxVolumes }

----------------------------------------------------------------------------
(* DRIVE SCANNING *)

NumPercent(t) == [kind |-> "num", tenths |-> t]
NaNPercent == [kind |-> "NaN", tenths |-> 0]

\* Wrong variant of the percentage: rounded to a whole percent.
usagePercentOfWhole(used, total) ==
    IF total = 0 THEN NaNPercent
    ELSE NumPercent(10 * toFixed(DoubleTimes100(DoubleDiv(used, total)), 0))

\* ((used / total) * 100).toFixed(1), in tenths of a percent; 0 / 0 is NaN.
usagePercentOf(used, total) ==
    IF total = 0 THEN NaNPercent
    ELSE NumPercent(toFixed(DoubleTimes100(DoubleDiv(used, total)), 1))

getDriveSpace(v) ==
    IF v.statfs = "ok"
    THEN LET total == v.blocks * v.bsize
             free == v.bavail * v.bsize
             used == total - free
         IN  [total |-> total, free |-> free, used |-> used,
              usagePercent |-> usagePercentOf(used, total)]
    ELSE [total |-> 0, free |-> 0, used |-> 0, usagePercent |-> NumPercent(0)]

\* 1024 ** 3
GiB == 1073741824

\* What statfs answers for a volume of a real size; the block size is a power
\* of two.
Statfs(ok, blocks, bavail, bsize) ==
    [ok |-> ok, blocks |-> blocks, bavail |-> bavail, bsize |-> bsize]
StatfsAnswers ==
    { st \in [ok : BOOLEAN,
              blocks : {0, 3, 80, 1000, 262144, 1000000, 131130250},
              bavail : {0, 1, 57, 250, 131072, 999999, 39405800, 131130250},
              bsize : {512, 4096}] : st.bavail <= st.blocks }

\* (bytes / (1024 ** 3)).toFixed(2) for bytes = blocks * bsize, in hundredths:
\* the quotient is that of blocks by the blocks of one GiB.
GBOf(blocks, bsize) == toFixed(DoubleDiv(blocks, GiB \div bsize), 2)

NoSpace == [done |-> FALSE, totalGB |-> 0, freeGB |-> 0, usedGB |-> 0,
            usagePercent |-> NumPercent(0)]

\* The formatted fields of getDriveSpace. total, free and used are the block
\* counts times bsize, so used / total is the quotient of the block counts.
formatDriveSpace(st) ==
    IF st.ok
    THEN [done |-> TRUE,
          totalGB |-> GBOf(st.blocks, st.bsize),
          freeGB |-> GBOf(st.bavail, st.bsize),
          usedGB |-> GBOf(st.blocks - st.bavail, st.bsize),
          usagePercent |-> usagePercentOf(st.blocks - st.bavail, st.blocks)]
    ELSE [NoSpace EXCEPT !.done = TRUE]

GetDriveSpace ==
    /\ ~spaceOut.done
    /\ spaceOut' = formatDriveSpace(spaceIn)
    /\ UNCHANGED <<spaceIn, exceptSpace>>

getWindowsDriveInfo(v) ==
    IF v.enc = "error"
    THEN [encrypted |-> FALSE, encryptionStatus |-> "Unknown"]
    ELSE [encrypted |-> (v.enc = "on"),
          encryptionStatus |-> IF v.enc = "on" THEN "On" ELSE "Off"]

getLinuxEncryptionInfo(v) ==
    IF v.enc = "on"
    THEN [encrypted |-> TRUE, encryptionStatus |-> "LUKS"]
    ELSE [encrypted |-> FALSE, encryptionStatus |-> "Unknown"]

getMacEncryptionInfo(v) ==
    IF v.enc = "error"
    THEN [encrypted |-> FALSE, encryptionStatus |-> "Unknown"]
    ELSE [encrypted |-> (v.enc = "on"),
          encryptionStatus |-> IF v.enc = "on" THEN "FileVault" ELSE "Off"]

\* One pushed entry: { name, type, ...space, ...info }
DriveEntry(i, type, space, info) ==
    [name |-> i, type |-> type,
     total |-> space.total, free |-> space.free, used |-> space.used,
     usagePercent |-> space.usagePercent,
     encrypted |-> info.encrypted, encryptionStatus |-> info.encryptionStatus]

\* The linux fallback pushes the root volume without any encryption field.
NoEncryptionInfo == [encrypted |-> FALSE, encryptionStatus |-> "none"]

\* Wrong variant of the loops: a volume whose capacity or encryption query
\* fails is left out.
RECURSIVE PushDrivesSkipping(_, _, _)
PushDrivesSkipping(plat, vols, i) ==
    IF i > Len(vols) THEN <<>>
    ELSE LET v == vols[i]
             rest == PushDrivesSkipping(plat, vols, i + 1)
         IN  IF v.kind = "skip" \/ v.statfs = "fail" \/ v.enc = "error" THEN rest
             ELSE IF plat = "win32"
                  THEN <<DriveEntry(i, "drive", getDriveSpace(v), getWindowsDriveInfo(v))>>
                       \o rest
                  ELSE <<DriveEntry(i, "mount", getDriveSpace(v), getLinuxEncryptionInfo(v))>>
                       \o rest

RECURSIVE PushDrives(_, _, _)
PushDrives(plat, vols, i) ==
    IF i > Len(vols) THEN <<>>
    ELSE LET v == vols[i]
             rest == PushDrives(plat, vols, i + 1)
         IN  IF v.kind = "skip" THEN rest
             ELSE IF plat = "win32"
                  THEN <<DriveEntry(i, "drive", getDriveSpace(v), getWindowsDriveInfo(v))>>
                       \o rest
                  ELSE <<DriveEntry(i, "mount", getDriveSpace(v), getLinuxEncryptionInfo(v))>>
                       \o rest

\* ipcMain.handle('get-drives'): the resolved value.
getDrives(plat, readable, vols) ==
    IF plat = "win32" THEN PushDrives(plat, vols, 1)
    ELSE IF plat = "linux"
         THEN IF readable THEN PushDrives(plat, vols, 1)
              ELSE <<DriveEntry(1, "mount", getDriveSpace(vols[1]), NoEncryptionInfo)>>
         ELSE <<DriveEntry(1, "mount", getDriveSpace(vols[1]), getMacEncryptionInfo(vols[1]))>>

NoDrives == [called |-> FALSE, drives |-> <<>>]

GetDrives ==
    /\ ~drivesResult.called
    /\ drivesResult' = [called |-> TRUE,
                        drives |-> getDrives(platform, mountsReadable, volumes)]
    /\ UNCHANGED <<platform, mountsReadable, volumes, exceptVolumes>>

----------------------------------------------------------------------------
(* RECOVERABILITY SCORING *)

ProbeOutcomes == {"present", "absent", "fail"}

\* checkSwapFile / checkSnapshots: a failing probe is caught inside and
\* reported as present: false; an unknown platform reports present: false.
checkSwapFile(plat, outcome) ==
    [present |-> (plat \in {"win32", "linux", "darwin"} /\ outcome = "present")]

checkSnapshots(plat, outcome) ==
    [present |-> (plat \in {"win32", "linux", "darwin"} /\ outcome = "present")]

RECURSIVE CountEncrypted(_)
CountEncrypted(drives) ==
    IF drives = <<>> THEN 0
    ELSE (IF Head(drives).encrypted THEN 1 ELSE 0) + CountEncrypted(Tail(drives))

RECURSIVE SumTotal(_)
SumTotal(drives) ==
    IF drives = <<>> THEN 0 ELSE Head(drives).total + SumTotal(Tail(drives))

RECURSIVE SumFree(_)
SumFree(drives) ==
    IF drives = <<>> THEN 0 ELSE Head(drives).free + SumFree(Tail(drives))

\* checkDiskEncryption, given the drives the registry lookup returned.
checkDiskEncryption(drives) ==
    [enabled |-> CountEncrypted(drives) > 0,
     encrypted |-> CountEncrypted(drives),
     drives |-> Len(drives)]

\* analyzeFreeSpace: the registry lookup is inside its try block.
analyzeFreeSpace(registryOk, drives) ==
    IF registryOk
    THEN LET totalSpace == SumTotal(drives)
             freeSpace == SumFree(drives)
         IN  [totalSpace |-> totalSpace, freeSpace |-> freeSpace,
              percentage |-> IF totalSpace > 0
                             THEN MathRound(DoubleTimes100(DoubleDiv(freeSpace, totalSpace)))
                             ELSE 0]
    ELSE [totalSpace |-> 0, freeSpace |-> 0, percentage |-> 0]

\* Wrong variant of the arithmetic: the sum is returned without the clamp.
ScoreOfUnclamped(swapPresent, snapPresent, encEnabled, percentage) ==
    50 + (IF swapPresent THEN 20 ELSE 0) + (IF snapPresent THEN 25 ELSE 0)
       - (IF encEnabled THEN 30 ELSE 0) + (IF percentage > 20 THEN 15 ELSE 0)

\* Wrong variant of the arithmetic: encryption does not lower the score.
ScoreOfEncryptionIgnored(swapPresent, snapPresent, encEnabled, percentage) ==
    Max(0, Min(100, 50 + (IF swapPresent THEN 20 ELSE 0)
                       + (IF snapPresent THEN 25 ELSE 0)
                       + (IF percentage > 20 THEN 15 ELSE 0)))

\* The arithmetic of the handler: score starts at 0, each factor adds to it,
\* and 50 is added inside the clamp.
ScoreOf(swapPresent, snapPresent, encEnabled, percentage) ==
    LET s1 == IF swapPresent THEN 20 ELSE 0
        s2 == IF snapPresent THEN s1 + 25 ELSE s1
        s3 == IF encEnabled THEN s2 - 30 ELSE s2
        s4 == IF percentage > 20 THEN s3 + 15 ELSE s3
    IN  Max(0, Min(100, s4 + 50))

RiskOf(score) ==
    IF score > 70 THEN "HIGH" ELSE IF score > 40 THEN "MEDIUM" ELSE "LOW"

NoFactors ==
    [swapFile |-> [present |-> FALSE],
     snapshots |-> [present |-> FALSE],
     encryption |-> [enabled |-> FALSE, encrypted |-> 0, drives |-> 0],
     freeSpace |-> [totalSpace |-> 0, freeSpace |-> 0, percentage |-> 0]]

NoRisk == [status |-> "none", score |-> 0, risk |-> "UNKNOWN", factors |-> NoFactors]
NoProbes == [swap |-> "absent", snapshots |-> "absent", registry |-> TRUE]

\* Wrong variant of the handler: a failing swap or snapshot probe also ends in
\* the catch block.
computeRecoverabilityScoreStrict(plat, readable, vols, swap, snap, registryOk) ==
    IF ~registryOk \/ swap = "fail" \/ snap = "fail"
    THEN [status |-> "error", score |-> 0, risk |-> "UNKNOWN", factors |-> NoFactors]
    ELSE LET drives == getDrives(plat, readable, vols)
             factors == [swapFile |-> checkSwapFile(plat, swap),
                         snapshots |-> checkSnapshots(plat, snap),
                         encryption |-> checkDiskEncryption(drives),
                         freeSpace |-> analyzeFreeSpace(registryOk, drives)]
             score == ScoreOf(factors.swapFile.present, factors.snapshots.present,
                              factors.encryption.enabled, factors.freeSpace.percentage)
         IN  [status |-> "ok", score |-> score, risk |-> RiskOf(score),
              factors |-> factors]

\* ipcMain.handle('compute-recoverability-score'): registryOk is whether
\* ipcMain.handlersMap.get('get-drives').fn can be called; when it cannot,
\* checkDiskEncryption throws and the handler's catch block answers.
computeRecoverabilityScore(plat, readable, vols, swap, snap, registryOk) ==
    IF ~registryOk
    THEN [status |-> "error", score |-> 0, risk |-> "UNKNOWN", factors |-> NoFactors]
    ELSE LET drives == getDrives(plat, readable, vols)
             factors == [swapFile |-> checkSwapFile(plat, swap),
                         snapshots |-> checkSnapshots(plat, snap),
                         encryption |-> checkDiskEncryption(drives),
                         freeSpace |-> analyzeFreeSpace(registryOk, drives)]
             score == ScoreOf(factors.swapFile.present, factors.snapshots.present,
                              factors.encryption.enabled, factors.freeSpace.percentage)
         IN  [status |-> "ok", score |-> score, risk |-> RiskOf(score),
              factors |-> factors]

ComputeRecoverabilityScore ==
    \E swap \in ProbeOutcomes, snap \in ProbeOutcomes, registryOk \in BOOLEAN :
        /\ riskResult.status = "none"
        /\ riskProbes' = [swap |-> swap, snapshots |-> snap, registry |-> registryOk]
        /\ riskResult' = computeRecoverabilityScore(platform, mountsReadable, volumes,
                                                    swap, snap, registryOk)
        /\ UNCHANGED exceptRisk

\* The scoring arithmetic on its own, over every combination of factor values.
ScoreInputs ==
    [swap : BOOLEAN, snapshots : BOOLEAN, encryption : BOOLEAN, percentage : 0..100]

NoScore == [done |-> FALSE, score |-> 0, risk |-> "UNKNOWN"]

ApplyScore ==
    /\ ~scoreOut.done
    /\ LET s == ScoreOf(scoreIn.swap, scoreIn.snapshots, scoreIn.encryption,
                        scoreIn.percentage)
       IN  scoreOut' = [done |-> TRUE, score |-> s, risk |-> RiskOf(s)]
    /\ UNCHANGED <<scoreIn, exceptScore>>

----------------------------------------------------------------------------
(* HIDDEN FILE SCANNING *)

maxFiles == 200

\* A directory listing is a sequence of entries; an entry of kind "file" with
\* n > 1 stands for n consecutive files alike but for their names.
FileGroup(n, size, dot, statOk) ==
    [n |-> n, kind |-> "file", dot |-> dot, statOk |-> statOk, size |-> size,
     readable |-> FALSE, common |-> 0, entries |-> <<>>]

\* commonHiddenDirs: .config .ssh .local .cache .mozilla .chrome
NumCommonDirs == 6

\* common: the position of the name in commonHiddenDirs, 0 for another name;
\* the names of a directory differ.
DirEntry(dot, statOk, readable, common, entries) ==
    [n |-> 1, kind |-> "dir", dot |-> dot, statOk |-> statOk, size |-> 0,
     readable |-> readable, common |-> common, entries |-> entries]

ManyFiles == maxFiles \div 2 + 1

PlainListings ==
    {<<>>, <<FileGroup(1, MaxSize, TRUE, TRUE)>>}

RichListings ==
    PlainListings
    \cup { <<FileGroup(n, sz, TRUE, TRUE)>> : n \in {1, ManyFiles}, sz \in {1, MaxSize} }
    \cup { <<FileGroup(1, 1, TRUE, FALSE)>>, <<FileGroup(1, 1, FALSE, TRUE)>> }

\* Listings of the directories at nesting level d and below.
RECURSIVE DeepListings(_)
DeepListings(d) ==
    IF d >= MaxTreeDepth THEN PlainListings
    ELSE PlainListings
         \cup { f \o <<DirEntry(TRUE, TRUE, TRUE, 0, sub)>> :
                  f \in PlainListings, sub \in DeepListings(d + 1) }

SecondListings ==
    RichListings
    \cup { f \o <<DirEntry(TRUE, TRUE, TRUE, 0, sub)>> :
             f \in RichListings, sub \in DeepListings(3) }

RootDirs ==
    { DirEntry(TRUE, TRUE, FALSE, 0, <<>>),
      DirEntry(FALSE, TRUE, TRUE, 0, <<FileGroup(1, 1, TRUE, TRUE)>>),
      DirEntry(TRUE, FALSE, TRUE, 0, <<FileGroup(1, 1, TRUE, TRUE)>>) }
    \cup { DirEntry(TRUE, TRUE, TRUE, c, sub) : c \in {0, 1}, sub \in SecondListings }

RootFiles == RichListings \cup { <<FileGroup(maxFiles + 1, 1, TRUE, TRUE)>> }

\* Two well-known directories, listed in either order, that fill the
\* collection or do not.
TwoCommonListings ==
    { <<DirEntry(TRUE, TRUE, TRUE, c[1], <<FileGroup(n, 1, TRUE, TRUE)>>),
        DirEntry(TRUE, TRUE, TRUE, c[2], <<FileGroup(n, sz, TRUE, TRUE)>>)>> :
        c \in {<<1, 2>>, <<2, 1>>, <<NumCommonDirs, 2>>}, n \in {1, 60},
        sz \in {1, MaxSize} }

RootListings ==
    RootFiles
    \cup TwoCommonListings
    \cup { f \o <<d>> : f \in RootFiles, d \in RootDirs }
    \cup { <<d>> \o f : f \in RootFiles \ {<<>>}, d \in RootDirs }

UnixTrees == { [readable |-> TRUE, entries |-> l] : l \in RootListings }
                \cup { [readable |-> FALSE, entries |-> <<>>] }

\* One element of hiddenFiles. level and idx stand for the path: the number of
\* directory levels below the scan path and the position among the files of
\* its directory.
HiddenEntry(level, idx, size, isDirectory, technique) ==
    [level |-> level, idx |-> idx, size |-> size, isDirectory |-> isDirectory,
     technique |-> technique]

NoCount == [count |-> 0, files |-> <<>>]

RECURSIVE scanDirectory(_, _, _, _)
RECURSIVE scanEntries(_, _, _, _, _)

\* scanDirectory(dirPath, currentCount, depth): the new count and the entries
\* pushed, in order.
scanDirectory(dir, currentCount, depth, level) ==
    IF currentCount >= maxFiles \/ depth > 3 \/ ~dir.readable
    THEN [count |-> currentCount, files |-> <<>>]
    ELSE scanEntries(dir.entries, 1, currentCount, depth, level)

\* Wrong variant of the loop: entries are pushed without looking at the count.
RECURSIVE scanEntriesUncapped(_, _, _, _, _)
scanEntriesUncapped(entries, i, currentCount, depth, level) ==
    IF i > Len(entries)
    THEN [count |-> currentCount, files |-> <<>>]
    ELSE LET e == entries[i]
         IN  IF ~e.dot \/ ~e.statOk
             THEN scanEntriesUncapped(entries, i + 1, currentCount, depth, level)
             ELSE IF e.kind = "file"
             THEN LET pushed == [j \in 1..e.n |->
                                   HiddenEntry(level, j, e.size, FALSE, "unix")]
                      rest == scanEntriesUncapped(entries, i + 1, currentCount + e.n,
                                                  depth, level)
                  IN  [count |-> rest.count, files |-> pushed \o rest.files]
             ELSE LET self == <<HiddenEntry(level, 0, 0, TRUE, "unix")>>
                      sub == IF depth < 2
                             THEN scanDirectory(e, currentCount + 1, depth + 1, level + 1)
                             ELSE [count |-> currentCount + 1, files |-> <<>>]
                      rest == scanEntriesUncapped(entries, i + 1, sub.count, depth, level)
                  IN  [count |-> rest.count,
                       files |-> self \o sub.files \o rest.files]

\* The for loop of scanDirectory from entry i on.
scanEntries(entries, i, currentCount, depth, level) ==
    IF i > Len(entries) \/ currentCount >= maxFiles
    THEN [count |-> currentCount, files |-> <<>>]
    ELSE LET e == entries[i]
         IN  IF ~e.dot \/ ~e.statOk
             THEN scanEntries(entries, i + 1, currentCount, depth, level)
             ELSE IF e.kind = "file"
             THEN LET k == Min(e.n, maxFiles - currentCount)
                      pushed == [j \in 1..k |->
                                   HiddenEntry(level, j, e.size, FALSE, "unix")]
                      rest == scanEntries(entries, i + 1, currentCount + k, depth, level)
                  IN  [count |-> rest.count, files |-> pushed \o rest.files]
             ELSE LET self == <<HiddenEntry(level, 0, 0, TRUE, "unix")>>
                      sub == IF depth < 2
                             THEN scanDirectory(e, currentCount + 1, depth + 1, level + 1)
                             ELSE [count |-> currentCount + 1, files |-> <<>>]
                      rest == scanEntries(entries, i + 1, sub.count, depth, level)
                  IN  [count |-> rest.count,
                       files |-> self \o sub.files \o rest.files]

\* The second loop of scanUnixHiddenFiles, from commonHiddenDirs[i] on: the
\* well-known directories of the home directory that exist are scanned again,
\* from depth 0, in the order of commonHiddenDirs.
RECURSIVE scanCommonDirs(_, _, _)
scanCommonDirs(entries, i, fileCount) ==
    IF i > NumCommonDirs \/ fileCount >= maxFiles
    THEN [count |-> fileCount, files |-> <<>>]
    ELSE LET found == SelectSeq(entries, LAMBDA e : e.kind = "dir" /\ e.common = i)
         IN  IF found # <<>>
             THEN LET sub == scanDirectory(found[1], fileCount, 0, 2)
                      rest == scanCommonDirs(entries, i + 1, sub.count)
                  IN  [count |-> rest.count, files |-> sub.files \o rest.files]
             ELSE scanCommonDirs(entries, i + 1, fileCount)

\* scanUnixHiddenFiles: what it pushes into hiddenFiles.
scanUnixHiddenFiles(tree, isHome) ==
    LET first == scanDirectory(tree, 0, 0, 1)
        second == IF isHome
                  THEN scanCommonDirs(tree.entries, 1, first.count)
                  ELSE [count |-> first.count, files |-> <<>>]
    IN  first.files \o second.files

MaxSizeOf(files) ==
    LET sizes == { files[i].size : i \in DOMAIN files }
    IN  IF sizes = {} THEN 0 ELSE CHOOSE m \in sizes : \A x \in sizes : x <= m

RECURSIVE SortFrom(_, _)
SortFrom(files, s) ==
    IF s < 0 THEN <<>>
    ELSE SelectSeq(files, LAMBDA f : f.size = s) \o SortFrom(files, s - 1)

\* Wrong variant of the sort: the array is left in insertion order.
sortSkipped(files) == files

\* hiddenFiles.sort((a, b) => b.size - a.size): stable, larger sizes first.
sortBySize(files) == SortFrom(files, MaxSizeOf(files))

\* hiddenFiles.slice(0, maxFiles)
sliceFiles(files) == SubSeq(files, 1, Min(Len(files), maxFiles))

NoHiddenResult == [status |-> "none", files |-> <<>>, totalScanned |-> 0]

\* The tail of the handler: sort, slice and count.
hiddenScanResult(files) ==
    [status |-> "ok", files |-> sliceFiles(sortBySize(files)),
     totalScanned |-> Len(files)]

\* ipcMain.handle('scan-hidden-files') on a platform other than win32.
ScanHiddenUnix ==
    /\ platform # "win32"
    /\ hiddenResult.status = "none"
    /\ hiddenFiles' = sortBySize(scanUnixHiddenFiles(unixFs, scanHome))
    /\ hiddenResult' = hiddenScanResult(scanUnixHiddenFiles(unixFs, scanHome))
    /\ UNCHANGED <<unixFs, scanHome, winFs, tech, exceptHidden>>

\* --- win32: four techniques run concurrently and share hiddenFiles ---

NumCommonNames == 13

\* What the techniques find: cmdN output lines of dir /A:H, psN objects in
\* the PowerShell JSON, nodeN dot-entries returned by readdir, and the
\* positions in commonHidden of the names that exist under the scan path.
\* cmdError and psError: exec passes an error to the callback (exit code,
\* timeout, output above maxBuffer), next to the output captured until then.
\* cmdStatOk, nodeStatOk, commonStatOk: whether fs.promises.stat of the
\* technique's candidates resolves. commonFile: the common names that exist
\* are regular files of size commonSize, or else directories. cmdDirs: the
\* lines of dir /A:H that are paths of directories; the other lines are
\* paths of regular files of size cmdSize.
WinEnv(cmdN, cmdSize, cmdStatOk, psN, nodeN, nodeReadable, commonAt) ==
    [cmdN |-> cmdN, cmdSize |-> cmdSize, cmdStatOk |-> cmdStatOk, cmdDirs |-> {},
     psN |-> psN, psSize |-> 1,
     nodeN |-> nodeN, nodeSize |-> 1, nodeReadable |-> nodeReadable,
     nodeStatOk |-> TRUE,
     commonAt |-> commonAt, commonStatOk |-> TRUE, commonFile |-> FALSE,
     commonSize |-> 0,
     cmdError |-> FALSE, psError |-> FALSE]

CmdOutputs ==
    {<<0, 1, TRUE>>}
    \cup { <<n, sz, TRUE>> : n \in 1..MaxItems, sz \in {1, MaxSize} }
    \cup { <<n, 1, FALSE>> : n \in 1..MaxItems }

NodeListings ==
    { <<n, TRUE>> : n \in 0..MaxItems } \cup { <<n, FALSE>> : n \in 1..MaxItems }

SmallWinFs ==
    { WinEnv(c[1], c[2], c[3], p, n[1], n[2], k) :
        c \in CmdOutputs, p \in 0..MaxItems, n \in NodeListings,
        k \in {{}, {1}, {NumCommonNames}} }

\* The PowerShell output alone almost fills, fills or overfills the array.
FullWinFs ==
    { WinEnv(c, MaxSize, TRUE, p, n, TRUE, k) :
        c \in {0, 1}, p \in {maxFiles - 1, maxFiles, maxFiles + 1}, n \in {0, 1},
        k \in {{}, {1}} }

\* One technique finds more than its share.
QuotaWinFs ==
    { WinEnv(maxFiles \div 4 + 1, 1, TRUE, 0, 0, TRUE, {}),
      WinEnv(0, 1, TRUE, 0, maxFiles \div 3 + 1, TRUE, {}),
      WinEnv(0, 1, TRUE, maxFiles \div 3 + 1, 0, TRUE, {}) }

\* A subprocess ends with an error, with or without output.
FailedExecWinFs ==
    { [WinEnv(c, MaxSize, TRUE, p, n[1], n[2], {}) EXCEPT !.cmdError = ce, !.psError = pe] :
        c \in 0..MaxItems, p \in 0..MaxItems, n \in NodeListings,
        ce \in BOOLEAN, pe \in BOOLEAN }

\* The stat of a dot-entry or of a common name fails; a common name is a file.
StatWinFs ==
    { [WinEnv(0, 1, TRUE, p, n, TRUE, k) EXCEPT
         !.nodeStatOk = ns, !.commonStatOk = cs, !.commonFile = cf,
         !.commonSize = IF cf THEN MaxSize ELSE 0] :
        p \in 0..MaxItems, n \in 0..MaxItems, k \in {{}, {1}, {7}},
        ns \in BOOLEAN, cs \in BOOLEAN, cf \in BOOLEAN }

\* dir /A:H lists hidden directories among the hidden files.
CmdDirWinFs ==
    { [WinEnv(c, sz, TRUE, p, 0, TRUE, k) EXCEPT !.cmdDirs = d] :
        c \in {1, 3}, sz \in {1, MaxSize}, p \in 0..MaxItems, k \in {{}, {1}},
        d \in {{1}, {2}, {1, 2, 3}} }

WinFileSystems ==
    SmallWinFs \cup FullWinFs \cup QuotaWinFs \cup FailedExecWinFs \cup StatWinFs
    \cup CmdDirWinFs

\* The entry scanWindowsWithCMD pushes for line i: isDirectory is
\* stats.isDirectory() and size is stats.isFile() ? stats.size : 0.
CmdEntry(fs, i) ==
    HiddenEntry(1, i, IF i \in fs.cmdDirs THEN 0 ELSE fs.cmdSize, i \in fs.cmdDirs, "cmd")

At(pc, i, count) == [pc |-> pc, i |-> i, count |-> count]
IdleTech == [cmd |-> At("idle", 0, 0), ps |-> At("idle", 0, 0),
             node |-> At("idle", 0, 0), common |-> At("idle", 0, 0)]

\* The loop heads: the guard evaluated before each candidate.
CmdHead(i, count, len) ==
    IF i > winFs.cmdN \/ len >= maxFiles \/ count >= maxFiles \div 4
    THEN At("done", i, count) ELSE At("stat", i, count)

NodeHead(i, count, len) ==
    IF i > winFs.nodeN \/ len >= maxFiles \/ count >= maxFiles \div 3
    THEN At("done", i, count) ELSE At("stat", i, count)

CommonHead(i, count, len) ==
    IF i > NumCommonNames \/ len >= maxFiles \/ count >= maxFiles \div 3
    THEN At("done", i, count) ELSE At("access", i, count)

\* files.forEach of the PowerShell callback: each object is pushed while
\* hiddenFiles.length < maxFiles.
PsPushed(n, len) ==
    [j \in 1..Min(n, Max(0, maxFiles - len)) |->
        HiddenEntry(1, j, winFs.psSize, FALSE, "ps")]

\* The handler calls scanWindowsHiddenFiles: every technique runs up to its
\* first await.
StartWindowsScan ==
    /\ platform = "win32"
    /\ hiddenResult.status = "none"
    /\ hiddenResult' = [hiddenResult EXCEPT !.status = "scanning"]
    /\ tech' = [cmd |-> At("exec", 0, 0), ps |-> At("exec", 0, 0),
                node |-> At("readdir", 0, 0),
                common |-> CommonHead(1, 0, Len(hiddenFiles))]
    /\ UNCHANGED <<hiddenFiles, unixFs, scanHome, winFs, exceptHidden>>

\* scanWindowsWithCMD: the exec callback starts the loop over the lines.
CmdCallback ==
    /\ tech.cmd.pc = "exec"
    /\ tech' = [tech EXCEPT !.cmd = CmdHead(1, 0, Len(hiddenFiles))]
    /\ UNCHANGED <<hiddenFiles, hiddenResult, unixFs, scanHome, winFs, exceptHidden>>

\* scanWindowsWithCMD: fs.promises.stat of line i settles; the entry is
\* pushed and the guard of the next line is evaluated.
CmdStat ==
    /\ tech.cmd.pc = "stat"
    /\ LET i == tech.cmd.i
           pushed == IF winFs.cmdStatOk
                     THEN <<CmdEntry(winFs, i)>>
                     ELSE <<>>
           files == hiddenFiles \o pushed
       IN  /\ hiddenFiles' = files
           /\ tech' = [tech EXCEPT
                         !.cmd = CmdHead(i + 1, tech.cmd.count + Len(pushed), Len(files))]
    /\ UNCHANGED <<hiddenResult, unixFs, scanHome, winFs, exceptHidden>>

\* scanWindowsWithPowerShell: the exec callback pushes synchronously.
PsCallback ==
    /\ tech.ps.pc = "exec"
    /\ hiddenFiles' = hiddenFiles \o PsPushed(winFs.psN, Len(hiddenFiles))
    /\ tech' = [tech EXCEPT !.ps = At("done", 0, 0)]
    /\ UNCHANGED <<hiddenResult, unixFs, scanHome, winFs, exceptHidden>>

\* scanWindowsWithNodeJS: readdir settles.
NodeReaddir ==
    /\ tech.node.pc = "readdir"
    /\ tech' = [tech EXCEPT
                  !.node = IF winFs.nodeReadable
                           THEN NodeHead(1, 0, Len(hiddenFiles))
                           ELSE At("done", 0, 0)]
    /\ UNCHANGED <<hiddenFiles, hiddenResult, unixFs, scanHome, winFs, exceptHidden>>

\* scanWindowsWithNodeJS: stat of dot-entry i settles; an entry whose stat
\* rejects is skipped.
NodeStat ==
    /\ tech.node.pc = "stat"
    /\ LET i == tech.node.i
           pushed == IF winFs.nodeStatOk
                     THEN <<HiddenEntry(1, i, winFs.nodeSize, FALSE, "node")>>
                     ELSE <<>>
           files == hiddenFiles \o pushed
       IN  /\ hiddenFiles' = files
           /\ tech' = [tech EXCEPT
                         !.node = NodeHead(i + 1, tech.node.count + Len(pushed), Len(files))]
    /\ UNCHANGED <<hiddenResult, unixFs, scanHome, winFs, exceptHidden>>

\* scanCommonHiddenLocations: fs.promises.access of name i settles.
CommonAccess ==
    /\ tech.common.pc = "access"
    /\ LET i == tech.common.i
       IN  tech' = [tech EXCEPT
                     !.common = IF i \in winFs.commonAt
                                THEN At("stat", i, tech.common.count)
                                ELSE CommonHead(i + 1, tech.common.count, Len(hiddenFiles))]
    /\ UNCHANGED <<hiddenFiles, hiddenResult, unixFs, scanHome, winFs, exceptHidden>>

\* scanCommonHiddenLocations: stat of name i settles; a name whose stat
\* rejects is skipped; size is stats.isFile() ? stats.size : 0.
CommonStat ==
    /\ tech.common.pc = "stat"
    /\ LET i == tech.common.i
           pushed == IF winFs.commonStatOk
                     THEN <<HiddenEntry(1, i, IF winFs.commonFile THEN winFs.commonSize ELSE 0,
                                        ~winFs.commonFile, "common")>>
                     ELSE <<>>
           files == hiddenFiles \o pushed
       IN  /\ hiddenFiles' = files
           /\ tech' = [tech EXCEPT
                         !.common = CommonHead(i + 1, tech.common.count + Len(pushed),
                                               Len(files))]
    /\ UNCHANGED <<hiddenResult, unixFs, scanHome, winFs, exceptHidden>>

\* Promise.all has settled: the handler sorts, slices and returns.
FinishWindowsScan ==
    /\ hiddenResult.status = "scanning"
    /\ \A t \in {"cmd", "ps", "node", "common"} : tech[t].pc = "done"
    /\ hiddenFiles' = sortBySize(hiddenFiles)
    /\ hiddenResult' = hiddenScanResult(hiddenFiles)
    /\ UNCHANGED <<tech, unixFs, scanHome, winFs, exceptHidden>>

----------------------------------------------------------------------------
(* REPORT GENERATION AND VERIFICATION *)

\* JSON text is a sequence of tokens: punctuation, whitespace, values, and
\* "bad" for bytes that fit no token. A value is what it holds: s names the
\* kind of content and n the content. pad tells texts of one content apart:
\* the unused trailing bits of base64 text, the line breaks of PEM text and the
\* bytes of it that no decoder reads, the whitespace inside the pretty-printed
\* value of a scan section.
Tok(t, s, n, pad) == [t |-> t, s |-> s, n |-> n, pad |-> pad]
Punct(c) == Tok("punct", c, 0, 0)
Ws(c) == Tok("ws", c, 0, 0)
BadToken == Tok("bad", "", 0, 0)

Val(s, n) == [s |-> s, n |-> n, pad |-> 0]
Str(v) == Tok("str", v.s, v.n, v.pad)
\* The value a token parses to: the whitespace inside a section is skipped.
ValOf(tok) == [s |-> tok.s, n |-> tok.n, pad |-> IF tok.s = "data" THEN 0 ELSE tok.pad]
Key(name) == Val(name, 0)
Undefined == Val("undefined", 0)

\* An object is the sequence of its properties, in property order.
Prop(k, v) == [k |-> k, v |-> v]

HasKey(obj, k) == \E i \in DOMAIN obj : obj[i].k = k
Get(obj, k) ==
    IF HasKey(obj, k) THEN obj[CHOOSE i \in DOMAIN obj : obj[i].k = k].v
    ELSE Undefined

\* obj[k] = v: an existing property keeps its place, a new one goes last.
Put(obj, k, v) ==
    IF HasKey(obj, k)
    THEN [i \in DOMAIN obj |-> IF obj[i].k = k THEN Prop(k, v) ELSE obj[i]]
    ELSE Append(obj, Prop(k, v))

\* { ...obj, ...src }
RECURSIVE Spread(_, _)
Spread(obj, src) ==
    IF src = <<>> THEN obj
    ELSE Spread(Put(obj, Head(src).k, Head(src).v), Tail(src))

\* const { signature, publicKey, ...rest } = obj
RestOf(obj) ==
    SelectSeq(obj, LAMBDA p : p.k \notin {Key("signature"), Key("publicKey")})

\* JSON.stringify(obj)
RECURSIVE StringifyProps(_)
StringifyProps(obj) ==
    IF obj = <<>> THEN <<>>
    ELSE <<Str(Head(obj).k), Punct(":"), Str(Head(obj).v)>>
         \o (IF Len(obj) > 1 THEN <<Punct(",")>> ELSE <<>>)
         \o StringifyProps(Tail(obj))

JSONstringify(obj) == <<Punct("{")>> \o StringifyProps(obj) \o <<Punct("}")>>

\* JSON.stringify(obj, null, 2)
RECURSIVE PrettyProps(_)
PrettyProps(obj) ==
    IF obj = <<>> THEN <<>>
    ELSE <<Ws("newline"), Str(Head(obj).k), Punct(":"), Ws("space"), Str(Head(obj).v)>>
         \o (IF Len(obj) > 1 THEN <<Punct(",")>> ELSE <<Ws("newline")>>)
         \o PrettyProps(Tail(obj))

JSONstringifyPretty(obj) == <<Punct("{")>> \o PrettyProps(obj) \o <<Punct("}")>>

\* JSON.parse(text): whitespace between tokens is skipped; a repeated key
\* keeps its first place and its last value; anything else is a SyntaxError.
RECURSIVE ParseProps(_, _)
ParseProps(toks, obj) ==
    \* toks starts at a key; the object's closing brace is the last token
    IF Len(toks) < 4 THEN [ok |-> FALSE, obj |-> <<>>]
    ELSE LET k == toks[1]
             colon == toks[2]
             v == toks[3]
             sep == toks[4]
         IN  IF k.t # "str" \/ colon # Punct(":") \/ v.t # "str"
             THEN [ok |-> FALSE, obj |-> <<>>]
             ELSE LET next == Put(obj, ValOf(k), ValOf(v))
                  IN  IF sep = Punct("}") /\ Len(toks) = 4
                      THEN [ok |-> TRUE, obj |-> next]
                      ELSE IF sep = Punct(",")
                      THEN ParseProps(SubSeq(toks, 5, Len(toks)), next)
                      ELSE [ok |-> FALSE, obj |-> <<>>]

JSONparse(text) ==
    LET toks == SelectSeq(text, LAMBDA t : t.t # "ws")
    IN  IF toks = <<Punct("{"), Punct("}")>> THEN [ok |-> TRUE, obj |-> <<>>]
        ELSE IF Len(toks) < 2 \/ toks[1] # Punct("{")
        THEN [ok |-> FALSE, obj |-> <<>>]
        ELSE ParseProps(Tail(toks), <<>>)

\* The key pair generated when the process starts.
ProcessKey == 1
SIGNING_KEYS == [publicKey |-> Val("key", ProcessKey), privateKey |-> ProcessKey]

\* The key pair another run of the program generated when it started.
OtherKey == 2
OTHER_KEYS == [publicKey |-> Val("key", OtherKey), privateKey |-> OtherKey]

\* crypto.sign('sha256', message, privateKey): signing is deterministic, so a
\* signature value stands for one (key, message).
SignatureOf(sigs, key, msg) ==
    IF \E i \in DOMAIN sigs : sigs[i] = [key |-> key, msg |-> msg]
    THEN CHOOSE i \in DOMAIN sigs : sigs[i] = [key |-> key, msg |-> msg]
    ELSE Len(sigs) + 1

Signed(sigs, key, msg) ==
    IF SignatureOf(sigs, key, msg) <= Len(sigs) THEN sigs
    ELSE Append(sigs, [key |-> key, msg |-> msg])

\* Wrong variant of the decoding: text with unused trailing bits set decodes
\* to no signature.
Base64DecodeStrict(v) == IF v.s = "sig" /\ v.pad = 0 THEN v.n ELSE 0

\* signature.toString('base64') and Buffer.from(text, 'base64'): decoding
\* drops the unused trailing bits of the text.
Base64(sig) == Val("sig", sig)
Base64Decode(v) == IF v.s = "sig" THEN v.n ELSE 0

\* Wrong variant of the check: the signature is checked against the key of
\* the running process, whatever key the report embeds.
cryptoVerifyOwnKey(sigs, msg, publicKey, sig) ==
    /\ sig \in DOMAIN sigs
    /\ sigs[sig].key = ProcessKey
    /\ sigs[sig].msg = msg

\* crypto.verify('sha256', message, publicKey, signature): throws when
\* publicKey is no key.
IsKey(v) == v.s = "key" /\ v.n > 0
cryptoVerify(sigs, msg, publicKey, sig) ==
    /\ sig \in DOMAIN sigs
    /\ sigs[sig].key = publicKey.n
    /\ sigs[sig].msg = msg

\* What the renderer may send as scanData.
Section(name, n) == Prop(Key(name), Val("data", n))
ScanDatas ==
    { <<>>,
      <<Section("drives", 1)>>,
      <<Section("drives", 1), Section("hiddenFiles", 1)>>,
      <<Section("drives", 1), Section("signature", 1)>>,
      <<Section("publicKey", 1)>>,
      <<Section("reportId", 1)>>,
      <<Section("timestamp", 1), Section("version", 1)>> }

\* reportId is crypto.randomUUID(), fresh in every call; timestamp is
\* new Date().toISOString(), the millisecond of the wall clock.
reportDataOf(id, timestamp, scanData) ==
    Spread(<<Prop(Key("reportId"), Val("uuid", id)),
             Prop(Key("timestamp"), Val("time", timestamp)),
             Prop(Key("version"), Val("1.0", 0))>>, scanData)

signedReportOf(reportData, sig, keys) ==
    Put(Put(reportData, Key("signature"), Base64(sig)),
        Key("publicKey"), keys.publicKey)

\* call: the invocation the value is the answer to (0: none yet).
NoGen == [status |-> "none", call |-> 0, success |-> FALSE, reportId |-> Undefined,
          pdfPath |-> 0, jsonPath |-> 0, signature |-> Undefined]

Untouched == \A f \in DOMAIN jsonFiles : jsonFiles[f].content = jsonFiles[f].written

\* A call that has signed its report and waits at an await. pc "pdf": the QR
\* code, the PDF, the directory and the write of the .pdf are still to come;
\* pc "json": the .pdf is written and the write of the .json is awaited.
\* keys: the key pair of the run of the program that handles the call.
GenCall(id, keys, pc, reportData) ==
    [id |-> id, keys |-> keys, pc |-> pc, reportData |-> reportData]

\* The milliseconds the wall clock may show when call id reads it: that of an
\* earlier call, or another one.
Timestamps(id) == 1..id

\* The handler up to its first await: the identifier is drawn and the report
\* is signed.
StartCall(keys, scanData) ==
    LET id == nextId + 1
    IN  \E timestamp \in Timestamps(id) :
          LET reportData == reportDataOf(id, timestamp, scanData)
          IN  /\ nextId' = id
              /\ signatures' = Signed(signatures, keys.privateKey,
                                      JSONstringify(reportData))
              /\ genCalls' = genCalls \cup {GenCall(id, keys, "pdf", reportData)}

\* Wrong variant of the handler: without the catch block a rejected write is
\* not answered with a value.
AnswerUncaught(c, value) ==
    IF c.keys = SIGNING_KEYS /\ value.success
    THEN [value EXCEPT !.status = "done", !.call = c.id]
    ELSE genResult

\* What a call of this run returns; another run's answer does not reach this
\* process.
Answer(c, value) ==
    IF c.keys = SIGNING_KEYS THEN [value EXCEPT !.status = "done", !.call = c.id]
    ELSE genResult

\* ipcMain.handle('generate-scan-report') is called. A run generates its
\* reports first; then one byte of one of them may change; then reports are
\* verified.
GenerateScanReport ==
    \E scanData \in ScanDatas :
        /\ nextId < MaxReports
        /\ Untouched
        /\ verifyResult.status = "none"
        /\ StartCall(SIGNING_KEYS, scanData)
        /\ UNCHANGED <<jsonFiles, pdfFiles, genResult, verifyResult, exceptReport>>

\* 'generate-scan-report' is called in another run of the program, whose key
\* pair is its own and whose reports directory is the same.
ReportOfOtherRun ==
    \E scanData \in {<<Section("drives", 1)>>, <<Section("publicKey", 1)>>} :
        /\ nextId < MaxReports
        /\ Untouched
        /\ verifyResult.status = "none"
        /\ StartCall(OTHER_KEYS, scanData)
        /\ UNCHANGED <<jsonFiles, pdfFiles, genResult, verifyResult, exceptReport>>

\* The awaits up to fs.promises.writeFile(pdfPath, ...) settle: the .pdf is
\* written, or one of them rejects and the catch block answers.
WritePdf ==
    \E c \in genCalls, ok \in BOOLEAN :
        /\ c.pc = "pdf"
        /\ pdfFiles' = IF ok THEN pdfFiles \cup {c.id} ELSE pdfFiles
        /\ genCalls' = IF ok THEN (genCalls \ {c}) \cup {[c EXCEPT !.pc = "json"]}
                       ELSE genCalls \ {c}
        /\ genResult' = IF ok THEN genResult ELSE Answer(c, NoGen)
        /\ UNCHANGED <<jsonFiles, signatures, nextId, verifyResult, exceptReport>>

\* fs.promises.writeFile(jsonPath, ...) settles: the .json is written and the
\* call returns its report, or the write rejects and the catch block answers.
WriteJson ==
    \E c \in genCalls, ok \in BOOLEAN :
        /\ c.pc = "json"
        /\ LET reportData == c.reportData
               sig == SignatureOf(signatures, c.keys.privateKey,
                                  JSONstringify(reportData))
               text == JSONstringifyPretty(signedReportOf(reportData, sig, c.keys))
           IN  /\ jsonFiles' = IF ok
                                THEN Append(jsonFiles,
                                            [name |-> c.id, content |-> text,
                                             written |-> text, payload |-> reportData,
                                             signer |-> c.keys.privateKey])
                                ELSE jsonFiles
               /\ genResult' = IF ok
                                THEN Answer(c, [NoGen EXCEPT
                                                    !.success = TRUE,
                                                    !.reportId = Val("uuid", c.id),
                                                    !.pdfPath = c.id, !.jsonPath = c.id,
                                                    !.signature = Base64(sig)])
                                ELSE Answer(c, NoGen)
        /\ genCalls' = genCalls \ {c}
        /\ UNCHANGED <<pdfFiles, signatures, nextId, verifyResult, exceptReport>>

NoVerify == [status |-> "none", file |-> 0, valid |-> FALSE, error |-> FALSE,
             reportId |-> Undefined, timestamp |-> Undefined,
             publicKeyMatch |-> FALSE]

\* Wrong variant of the verification: a report without signature or public
\* key is answered like any other whose signature does not verify.
verifyReportUnchecked(sigs, content) ==
    LET parsed == JSONparse(content)
        reportData == parsed.obj
        publicKey == Get(reportData, Key("publicKey"))
    IN  IF ~parsed.ok
        THEN [valid |-> FALSE, error |-> TRUE, reportId |-> Undefined,
              timestamp |-> Undefined, publicKeyMatch |-> FALSE]
        ELSE [valid |-> cryptoVerify(sigs, JSONstringify(RestOf(reportData)), publicKey,
                                     Base64Decode(Get(reportData, Key("signature")))),
              error |-> FALSE,
              reportId |-> Get(reportData, Key("reportId")),
              timestamp |-> Get(reportData, Key("timestamp")),
              publicKeyMatch |-> (publicKey = SIGNING_KEYS.publicKey)]

\* ipcMain.handle('verify-report'): the resolved value for a file's content.
verifyReport(sigs, content) ==
    LET parsed == JSONparse(content)
        reportData == parsed.obj
        signature == Get(reportData, Key("signature"))
        publicKey == Get(reportData, Key("publicKey"))
        dataToVerify == RestOf(reportData)
        failed == [valid |-> FALSE, error |-> TRUE, reportId |-> Undefined,
                   timestamp |-> Undefined, publicKeyMatch |-> FALSE]
    IN  IF ~parsed.ok THEN failed
        ELSE IF signature = Undefined \/ publicKey = Undefined THEN failed
        ELSE IF ~IsKey(publicKey) THEN failed
        ELSE [valid |-> cryptoVerify(sigs, JSONstringify(dataToVerify), publicKey,
                                     Base64Decode(signature)),
              error |-> FALSE,
              reportId |-> Get(reportData, Key("reportId")),
              timestamp |-> Get(reportData, Key("timestamp")),
              publicKeyMatch |-> (publicKey = SIGNING_KEYS.publicKey)]

\* 'verify-report' of the path of a report file: readFile rejects when the
\* file is not there (file 0).
VerifyReport ==
    \E id \in 1..nextId :
        /\ IF \E f \in DOMAIN jsonFiles : jsonFiles[f].name = id
           THEN LET f == CHOOSE g \in DOMAIN jsonFiles : jsonFiles[g].name = id
                    r == verifyReport(signatures, jsonFiles[f].content)
                IN  verifyResult' = [status |-> "done", file |-> f, valid |-> r.valid,
                                     error |-> r.error, reportId |-> r.reportId,
                                     timestamp |-> r.timestamp,
                                     publicKeyMatch |-> r.publicKeyMatch]
           ELSE verifyResult' = [NoVerify EXCEPT !.status = "done", !.error = TRUE]
        /\ UNCHANGED <<jsonFiles, pdfFiles, signatures, nextId, genCalls, genResult,
                       exceptReport>>

\* One byte of a persisted report is changed outside the program. The byte
\* lies in one token: the token becomes another of its kind, or no token.
Mutations(tok) ==
    {BadToken}
    \cup (IF tok.t = "ws" THEN {Ws("tab")} ELSE {})
    \cup (IF tok.t = "str" /\ tok.s = "sig"
          THEN {Tok("str", "sig", tok.n, 1), Tok("str", "sig", 0, 0)} ELSE {})
    \cup (IF tok.t = "str" /\ tok.s \in {"data", "uuid", "time", "key"}
          THEN {Tok("str", tok.s, tok.n + 1, 0)} ELSE {})
    \cup (IF tok.t = "str" /\ tok.s = "key"
          THEN {Tok("str", "key", tok.n, 1), Tok("str", "key", 0, 0)} ELSE {})
    \cup (IF tok.t = "str" /\ tok.s = "data"
          THEN {Tok("str", "data", tok.n, 1)} ELSE {})
    \cup (IF tok.t = "str" /\ tok.s = "1.0" THEN {Tok("str", "1.1", 0, 0)} ELSE {})
    \cup (IF tok.t = "str"
             /\ tok.s \notin {"sig", "data", "uuid", "time", "key", "1.0"}
          THEN {Tok("str", "misspelt", 0, 0)} ELSE {})

TamperReport ==
    /\ Untouched
    /\ genCalls = {}
    /\ verifyResult.status = "none"
    /\ Len(jsonFiles) <= MaxTampered
    /\ \E f \in DOMAIN jsonFiles :
         \E i \in DOMAIN jsonFiles[f].content :
           \E tok \in Mutations(jsonFiles[f].content[i]) :
              jsonFiles' = [jsonFiles EXCEPT ![f].content[i] = tok]
    /\ UNCHANGED <<pdfFiles, signatures, nextId, genCalls, genResult, verifyResult,
                   exceptReport>>

----------------------------------------------------------------------------
(* SECURE WIPE SIMULATION *)

\* steps.length: the messages of the simulation.
totalSteps == 8

WipeCalls == 1..MaxWipes

\* Wrong variant of the event: progress is rounded down.
WipeEventFloor(currentStep) ==
    [step |-> currentStep, totalSteps |-> totalSteps,
     progress |-> (currentStep * 100) \div totalSteps,
     message |-> IF currentStep <= totalSteps THEN currentStep ELSE 0,
     completed |-> currentStep >= totalSteps]

\* The object sent on 'wipe-progress'; message 0 stands for 'Completed'.
WipeEvent(currentStep) ==
    [step |-> currentStep, totalSteps |-> totalSteps,
     progress |-> MathRound(DoubleTimes100(DoubleDiv(currentStep, totalSteps))),
     message |-> IF currentStep <= totalSteps THEN currentStep ELSE 0,
     completed |-> currentStep >= totalSteps]

\* The events of the 8 firings of one timer.
ProgressEvents == [currentStep \in 1..totalSteps |-> WipeEvent(currentStep)]

NoWipe == [pc |-> "idle", currentStep |-> 0, events |-> <<>>,
           success |-> FALSE, error |-> FALSE]

\* ipcMain.handle('simulate-secure-wipe'): the promise is created and the
\* interval timer is set.
SimulateSecureWipe(c) ==
    /\ wipe[c].pc = "idle"
    /\ senderAlive
    /\ wipe' = [wipe EXCEPT ![c].pc = "running"]
    /\ UNCHANGED <<senderAlive, exceptWipe>>

\* The interval callback, while the process lives: the event is sent, and
\* the 8th firing clears the timer and resolves the promise.
WipeTick(c) ==
    /\ wipe[c].pc = "running"
    /\ senderAlive
    /\ LET currentStep == wipe[c].currentStep + 1
       IN  wipe' = [wipe EXCEPT
                      ![c].currentStep = currentStep,
                      ![c].events = Append(@, ProgressEvents[currentStep]),
                      ![c].pc = IF currentStep >= totalSteps THEN "done" ELSE @,
                      ![c].success = currentStep >= totalSteps]
    /\ UNCHANGED <<senderAlive, exceptWipe>>

\* The window is closed: win.on('closed') calls app.quit() and the process
\* ends, and with it every timer and every call that has not returned.
CloseWindow ==
    /\ senderAlive
    /\ senderAlive' = FALSE
    /\ UNCHANGED <<wipe, exceptWipe>>

----------------------------------------------------------------------------
(* FILE PREVIEW *)

maxBytes == 2048

\* A file is `letters` bytes 'A' followed by the bytes of `tail`; exists is
\* whether it can be opened.
PreviewBytes == {0, 8, 9, 10, 11, 12, 13, 14, 31, 32, 126, 127}
PreviewFiles ==
    { [exists |-> x, letters |-> n, tail |-> t] :
        x \in BOOLEAN, n \in {0, maxBytes - 1, maxBytes},
        t \in UNION { [1..k -> PreviewBytes] : k \in 0..MaxFileLen } }

\* /[\x00-\x08\x0E-\x1F\x7F]/
InBinaryClass(b) == b \in 0..8 \/ b \in 14..31 \/ b = 127

\* buffer.subarray(0, bytesRead): the part of the tail that was read.
TailRead(file) ==
    SubSeq(file.tail, 1, Min(Len(file.tail), Max(0, maxBytes - file.letters)))

NoPreview == [done |-> FALSE, content |-> "none", letters |-> 0, tail |-> <<>>,
              bytesRead |-> 0, isBinary |-> FALSE, error |-> FALSE]

\* ipcMain.handle('preview-file'): readOk is whether fs.promises.read can be
\* called; when it cannot, or the file cannot be opened, the catch block
\* answers. content is "text" with the decoded bytes in letters and tail,
\* "marker" for '[Binary file - cannot preview]', "error" for the error text.
previewFile(file, readOk) ==
    IF ~file.exists \/ ~readOk
    THEN [NoPreview EXCEPT !.done = TRUE, !.content = "error", !.error = TRUE]
    ELSE LET read == TailRead(file)
             bytesRead == Min(file.letters, maxBytes) + Len(read)
             isBinary == \E i \in DOMAIN read : InBinaryClass(read[i])
         IN  [done |-> TRUE,
              content |-> IF isBinary THEN "marker" ELSE "text",
              letters |-> IF isBinary THEN 0 ELSE Min(file.letters, maxBytes),
              tail |-> IF isBinary THEN <<>> ELSE read,
              bytesRead |-> bytesRead, isBinary |-> isBinary, error |-> FALSE]

PreviewFile ==
    /\ ~previewResult.done
    /\ \E readOk \in BOOLEAN : previewResult' = previewFile(previewIn, readOk)
    /\ UNCHANGED <<previewIn, exceptPreview>>

----------------------------------------------------------------------------
(* BROWSER PROFILE SCANNING *)

\* A data directory is missing (access fails), unreadable (readdir throws) or
\* lists entries; an entry has a name, is a directory or not, and holds the
\* files `statable`, those fs.promises.stat succeeds on.
Missing == [state |-> "missing", entries |-> <<>>]
Unreadable == [state |-> "unreadable", entries |-> <<>>]
Listing(entries) == [state |-> "listed", entries |-> entries]
BrowserEntry(name, isDir, statable) ==
    [name |-> name, isDirectory |-> isDir, statable |-> statable]

chromeFiles == <<"Login Data", "Cookies", "History", "Bookmarks", "Preferences">>
firefoxFiles == <<"logins.json", "cookies.sqlite", "places.sqlite", "key4.db", "prefs.js">>

\* entry.name.startsWith('Profile') || entry.name === 'Default'
IsChromeProfileName(name) == name \in {"Default", "Profile 1", "Profile.bak"}
\* entry.name.includes('.')
IsFirefoxProfileName(name) == name \in {"abc.default", "Profile.bak", "profiles.ini"}

ChromeEntries ==
    { BrowserEntry("Default", TRUE, {"History", "Cookies", "Web Data"}),
      BrowserEntry("Default", TRUE, {"Web Data"}),
      BrowserEntry("Profile 1", TRUE, {"Preferences"}),
      BrowserEntry("Profile 1", FALSE, {}),
      BrowserEntry("Guest Profile", TRUE, {"History"}),
      BrowserEntry("Profile.bak", TRUE, {}) }
FirefoxEntries ==
    { BrowserEntry("abc.default", TRUE, {"key4.db", "logins.json"}),
      BrowserEntry("abc.default", TRUE, {"History"}),
      BrowserEntry("Crash Reports", TRUE, {"prefs.js"}),
      BrowserEntry("profiles.ini", FALSE, {}),
      BrowserEntry("profiles.ini", TRUE, {"cookies.sqlite", "places.sqlite"}),
      BrowserEntry("Profile.bak", TRUE, {"prefs.js"}) }
DataDirs(entries) ==
    {Missing, Unreadable}
    \cup { Listing(l) : l \in UNION { [1..k -> entries] : k \in 0..MaxProfiles } }
BrowserPlatforms == {"win32", "linux", "freebsd"}
BrowserFileSystems ==
    [platform : BrowserPlatforms, chrome : DataDirs(ChromeEntries),
     chromium : {Missing, Unreadable, Listing(<<BrowserEntry("Default", TRUE, {"Bookmarks"})>>)},
     firefox : DataDirs(FirefoxEntries)]

\* getChromeProfilePaths / getFirefoxProfilePaths: the data directories of
\* the platform, in the order they are visited.
getChromeProfilePaths(fs) ==
    IF fs.platform \in {"win32", "darwin", "linux"}
    THEN <<[path |-> "chrome", dir |-> fs.chrome], [path |-> "chromium", dir |-> fs.chromium]>>
    ELSE <<>>
getFirefoxProfilePaths(fs) ==
    IF fs.platform \in {"win32", "darwin", "linux"}
    THEN <<[path |-> "firefox", dir |-> fs.firefox]>>
    ELSE <<>>

\* analyzeBrowserProfile: the important files that can be stat'ed, in the
\* order of the list.
analyzeBrowserProfile(path, entry, browser) ==
    [browser |-> browser, profileName |-> entry.name, profilePath |-> <<path, entry.name>>,
     files |-> SelectSeq(IF browser = "chrome" THEN chromeFiles ELSE firefoxFiles,
                         LAMBDA f : f \in entry.statable)]

\* Wrong variant of the retention test: every profile directory is kept.
KeepProfileAlways(profileData) == TRUE

\* if (profileData.files.length > 0) profiles.push(profileData)
KeepProfile(profileData) == Len(profileData.files) > 0

\* The loop over one directory's entries.
RECURSIVE scanEntriesOf(_, _, _)
scanEntriesOf(path, entries, browser) ==
    IF entries = <<>> THEN <<>>
    ELSE LET entry == Head(entries)
             named == IF browser = "chrome" THEN IsChromeProfileName(entry.name)
                      ELSE IsFirefoxProfileName(entry.name)
             profileData == analyzeBrowserProfile(path, entry, browser)
         IN  (IF entry.isDirectory /\ named /\ KeepProfile(profileData)
              THEN <<profileData>> ELSE <<>>)
             \o scanEntriesOf(path, Tail(entries), browser)

\* scanChromeProfiles / scanFirefoxProfiles: a missing directory is passed
\* over, an unreadable one is caught and passed over.
RECURSIVE scanProfilePaths(_, _)
scanProfilePaths(paths, browser) ==
    IF paths = <<>> THEN <<>>
    ELSE (IF Head(paths).dir.state = "listed"
          THEN scanEntriesOf(Head(paths).path, Head(paths).dir.entries, browser)
          ELSE <<>>)
         \o scanProfilePaths(Tail(paths), browser)
scanChromeProfiles(fs) == scanProfilePaths(getChromeProfilePaths(fs), "chrome")
scanFirefoxProfiles(fs) == scanProfilePaths(getFirefoxProfilePaths(fs), "firefox")

NoBrowserResult == [done |-> FALSE, profiles |-> <<>>, totalFound |-> 0]

\* ipcMain.handle('scan-browser-profiles')
scanBrowserProfiles(fs) ==
    LET profiles == scanChromeProfiles(fs) \o scanFirefoxProfiles(fs)
    IN  [done |-> TRUE, profiles |-> profiles, totalFound |-> Len(profiles)]

ScanBrowserProfiles ==
    /\ ~browserResult.done
    /\ browserResult' = scanBrowserProfiles(browserFs)
    /\ UNCHANGED <<browserFs, exceptBrowser>>

----------------------------------------------------------------------------
(* EVENT LOG SCANNING *)

highRiskEvents == {"4624", "4625", "4648", "4720", "4726", "104"}
mediumRiskEvents == {"4798", "4799", "1074", "6005", "6006"}

\* Wrong variant of the assessment: the description is looked at too.
assessPrivacyRiskByText(eventId, description) ==
    IF eventId \in highRiskEvents \/ description = "log cleared" THEN "High"
    ELSE IF eventId \in mediumRiskEvents THEN "Medium"
    ELSE "Low"

assessPrivacyRisk(eventId, description) ==
    IF eventId \in highRiskEvents THEN "High"
    ELSE IF eventId \in mediumRiskEvents THEN "Medium"
    ELSE "Low"

\* The text of one event as wevtutil prints it, by what parseEventEntry
\* finds in it: eventId "" and timeCreated FALSE when no line matches,
\* level <<>> when no line holds Level and a number, else <<levelNum>>.
EventText(eventId, timeCreated, level, description) ==
    [eventId |-> eventId, timeCreated |-> timeCreated, level |-> level,
     description |-> description]

EventIds == highRiskEvents \cup mediumRiskEvents \cup {"4634", "1102", "7"}

EventTexts ==
    { EventText(id, TRUE, <<>>, d) : id \in EventIds, d \in {"logon", "log cleared"} }
    \cup { EventText("", TRUE, <<>>, "logon"), EventText("4624", FALSE, <<>>, "logon"),
           EventText("4624", TRUE, <<2>>, "logon"), EventText("7", TRUE, <<5>>, "logon"),
           EventText("4624", TRUE, <<0>>, "logon") }

LevelName(levelNum) ==
    IF levelNum = 1 THEN "Critical"
    ELSE IF levelNum = 2 THEN "Error"
    ELSE IF levelNum = 3 THEN "Warning"
    ELSE IF levelNum = 4 THEN "Information"
    ELSE "Unknown"

\* parseEventEntry: the entry as a one-element sequence, empty for null.
parseEventEntry(eventText, logSource) ==
    IF eventText.eventId # "" /\ eventText.timeCreated
    THEN << [eventId |-> eventText.eventId,
             level |-> IF eventText.level = <<>> THEN "Information"
                       ELSE LevelName(eventText.level[1]),
             logSource |-> logSource, description |-> eventText.description,
             privacyRisk |-> assessPrivacyRisk(eventText.eventId,
                                               eventText.description)] >>
    ELSE <<>>

\* events.slice(0, 20)
eventsPerLog == 20

\* Wrong variant of the parser: every event of the output is parsed.
RECURSIVE ParseAllEvents(_, _)
ParseAllEvents(events, logSource) ==
    IF events = <<>> THEN <<>>
    ELSE parseEventEntry(Head(events), logSource) \o ParseAllEvents(Tail(events), logSource)
parseEventLogOutputUncapped(output, logSource) == ParseAllEvents(output, logSource)

RECURSIVE ParseEvents(_, _, _)
ParseEvents(events, i, logSource) ==
    IF i > Len(events) \/ i > eventsPerLog THEN <<>>
    ELSE parseEventEntry(events[i], logSource) \o ParseEvents(events, i + 1, logSource)

parseEventLogOutput(output, logSource) == ParseEvents(output, 1, logSource)

\* What exec hands to its callback: ok FALSE is wevtutil failing or timing
\* out; lines are the trimmed lines of wevtutil el, "" an empty one.
ExecError == [ok |-> FALSE, lines |-> <<>>, events |-> <<>>]
Listed(lines) == [ok |-> TRUE, lines |-> lines, events |-> <<>>]
Printed(events) == [ok |-> TRUE, lines |-> <<>>, events |-> events]

scanEventLog(logName, output) ==
    IF ~output.ok THEN <<>> ELSE parseEventLogOutput(output.events, logName)

\* .slice(0, 50)
maxSources == 50

\* Wrong variant of the enumeration: every listed name is a source.
getEventLogSourcesUncapped(listed) ==
    IF ~listed.ok THEN {"System", "Security", "Application"}
    ELSE { listed.lines[i] : i \in DOMAIN listed.lines } \ {""}

\* getEventLogSources: the first 50 non-empty lines wevtutil lists, or the
\* default logs.
getEventLogSources(listed) ==
    IF ~listed.ok THEN {"System", "Security", "Application"}
    ELSE LET sources == SelectSeq(listed.lines, LAMBDA line : line # "")
         IN  { sources[i] : i \in 1..Min(Len(sources), maxSources) }

criticalLogs == <<"System", "Security", "Application", "Setup", "Windows PowerShell">>

RECURSIVE ScanLogs(_, _, _)
\* The loop over criticalLogs, followed by the PowerShell log.
ScanLogs(logSources, outputs, i) ==
    IF i > Len(criticalLogs) THEN [logs |-> <<>>, scanSummary |-> <<>>]
    ELSE LET logName == criticalLogs[i]
             rest == ScanLogs(logSources, outputs, i + 1)
         IN  IF logName \in logSources
             THEN LET logEntries == scanEventLog(logName, outputs[logName])
                  IN  [logs |-> logEntries \o rest.logs,
                       scanSummary |-> <<[log |-> logName, n |-> Len(logEntries)]>>
                                       \o rest.scanSummary]
             ELSE rest

NoEventResult == [status |-> "none", logs |-> <<>>, totalEntries |-> 0,
                  error |-> FALSE, logSources |-> {}, scanSummary |-> <<>>,
                  queries |-> 0]

\* Wrong variant of the handler: off Windows the result is an empty success.
scanEventLogsSilent(plat, listed, outputs) ==
    IF plat # "win32"
    THEN [NoEventResult EXCEPT !.status = "done"]
    ELSE LET logSources == getEventLogSources(listed)
             results == ScanLogs(logSources, outputs, 1)
         IN  [status |-> "done", logs |-> results.logs,
              totalEntries |-> Len(results.logs), error |-> FALSE,
              logSources |-> logSources, scanSummary |-> results.scanSummary,
              queries |-> 1 + Len(results.scanSummary)]

\* ipcMain.handle('scan-event-logs'): the resolved value; queries counts the
\* wevtutil runs.
scanEventLogs(plat, listed, outputs) ==
    IF plat # "win32"
    THEN [NoEventResult EXCEPT !.status = "done", !.error = TRUE]
    ELSE LET logSources == getEventLogSources(listed)
             results == ScanLogs(logSources, outputs, 1)
         IN  [status |-> "done", logs |-> results.logs,
              totalEntries |-> Len(results.logs), error |-> FALSE,
              logSources |-> logSources, scanSummary |-> results.scanSummary,
              queries |-> 1 + Len(results.scanSummary)]

\* n names of channels that are not scanned.
OtherChannels(n) == [i \in 1..n |-> "Microsoft-Windows-Other"]

\* What wevtutil el lists and what wevtutil qe prints for each log.
ListedSources ==
    {ExecError, Listed(<<>>), Listed(<<"System">>),
     Listed(<<"Security", "Setup", "HardwareEvents">>),
     Listed(<<"System", "Security", "Application", "Setup", "Windows PowerShell">>),
     Listed(<<"Application">> \o OtherChannels(maxSources - 2)
            \o <<"Security", "Setup", "System", "Windows PowerShell">>),
     Listed(<<"", "Application", "">> \o OtherChannels(maxSources - 2)
            \o <<"Security", "", "System">>),
     Listed(OtherChannels(maxSources)
            \o <<"System", "Security", "Application", "Setup", "Windows PowerShell">>)}

\* n events alike.
ManyEvents(n, e) == [i \in 1..n |-> e]

SystemOutputs ==
    {ExecError, Printed(<<>>)} \cup { Printed(<<e>>) : e \in EventTexts }
    \cup { Printed(<<e1, e2>>) : e1 \in EventTexts, e2 \in EventTexts }
    \cup { Printed(ManyEvents(n, EventText("4624", TRUE, <<>>, "logon"))) :
             n \in {eventsPerLog - 1, eventsPerLog, eventsPerLog + 1} }
    \cup { Printed(<<EventText("", TRUE, <<>>, "logon")>>
                   \o ManyEvents(n, EventText("1074", TRUE, <<4>>, "logon"))) :
             n \in {eventsPerLog - 1, eventsPerLog, eventsPerLog + 1} }

LogOutputs ==
    { [logName \in {"System", "Security", "Application", "Setup", "Windows PowerShell"}
         |-> IF logName = "System" THEN sys
             ELSE IF logName \in quiet THEN ExecError
             ELSE Printed(<<EventText("4625", TRUE, <<4>>, "logon")>>)] :
        sys \in SystemOutputs,
        quiet \in {{}, {"Security"}, {"Application", "Setup", "Windows PowerShell"}} }

NoWevtutil ==
    [listed |-> ExecError,
     outputs |-> [logName \in {"System", "Security", "Application", "Setup",
                               "Windows PowerShell"} |-> ExecError]]

ScanEventLogs ==
    /\ eventResult.status = "none"
    /\ \E listed \in ListedSources, outputs \in LogOutputs :
          /\ eventResult' = scanEventLogs(platform, listed, outputs)
          /\ wevtutil' = IF platform = "win32"
                         THEN [listed |-> listed, outputs |-> outputs]
                         ELSE NoWevtutil
    /\ UNCHANGED <<volumeVars, exceptEvent>>

----------------------------------------------------------------------------
(* SUBPROCESSES *)

\* The timeout option of each child_process.exec call, in milliseconds;
\* 0 where exec is called without one.
ExecTimeout ==
    [bitlocker |-> 0, lsblk |-> 0, fdesetup |-> 0, sysctl |-> 0, vssadmin |-> 0,
     lvs |-> 0, btrfs |-> 0, tmutil |-> 0,
     dir |-> 10000, getChildItem |-> 15000, wevtutilEl |-> 30000,
     wevtutilQe |-> 45000]

RECURSIVE DrivesExecs(_, _, _)
\* The encryption queries 'get-drives' awaits, one volume after the other.
DrivesExecs(plat, vols, i) ==
    IF i > Len(vols) THEN <<>>
    ELSE (IF vols[i].kind = "skip" THEN <<>>
          ELSE IF plat = "win32" THEN <<"bitlocker">> ELSE <<"lsblk">>)
         \o DrivesExecs(plat, vols, i + 1)

getDrivesExecs(plat, readable, vols) ==
    IF plat = "win32" THEN DrivesExecs(plat, vols, 1)
    ELSE IF plat = "linux"
         THEN IF readable THEN DrivesExecs(plat, vols, 1) ELSE <<>>
         ELSE <<"fdesetup">>

checkSwapFileExecs(plat) == IF plat = "darwin" THEN <<"sysctl">> ELSE <<>>

checkSnapshotsExecs(plat) ==
    IF plat = "win32" THEN <<"vssadmin">>
    ELSE IF plat = "linux" THEN <<"lvs", "btrfs">>
    ELSE IF plat = "darwin" THEN <<"tmutil">>
    ELSE <<>>

\* The subprocesses of 'scan-event-logs': wevtutil el, then one wevtutil qe
\* for each of System, Security, Application, Setup and Windows PowerShell
\* that is among the sources; listed is what wevtutil el hands back.
scanEventLogsExecs(listed) ==
    LET logSources == getEventLogSources(listed)
        queried == SelectSeq(criticalLogs, LAMBDA logName : logName \in logSources)
    IN  <<"wevtutilEl">> \o [k \in 1..Len(queried) |-> "wevtutilQe"]

Boundaries == {"get-drives", "compute-recoverability-score", "scan-hidden-files",
               "scan-event-logs"}

\* The subprocesses an operation waits for, in the order it awaits them (the
\* two of the win32 hidden-file scan run side by side and are both awaited).
ExecPlan(op, plat, readable, vols, registryOk, listed) ==
    IF op = "get-drives" THEN getDrivesExecs(plat, readable, vols)
    ELSE IF op = "compute-recoverability-score"
    THEN checkSwapFileExecs(plat) \o checkSnapshotsExecs(plat)
         \o (IF registryOk
             THEN getDrivesExecs(plat, readable, vols)
                  \o getDrivesExecs(plat, readable, vols)
             ELSE <<>>)
    ELSE IF op = "scan-hidden-files"
    THEN IF plat = "win32" THEN <<"dir", "getChildItem">> ELSE <<>>
    ELSE IF plat = "win32" THEN scanEventLogsExecs(listed) ELSE <<>>

NoCall == [op |-> "none", pc |-> "idle", plan |-> <<>>, i |-> 0, hangs |-> FALSE]

\* The operation goes on after its i-th subprocess has called back.
AfterExec(call, i, hangs) ==
    IF i >= Len(call.plan)
    THEN [call EXCEPT !.pc = "returned", !.i = i, !.hangs = FALSE]
    ELSE [call EXCEPT !.pc = "exec", !.i = i + 1, !.hangs = hangs]

\* The renderer invokes an operation; it runs up to its first subprocess.
Invoke ==
    \E op \in Boundaries, registryOk \in BOOLEAN, listed \in ListedSources,
       hangs \in BOOLEAN :
        /\ opCall.pc = "idle"
        /\ opCall' = AfterExec([NoCall EXCEPT
                                  !.op = op,
                                  !.plan = ExecPlan(op, platform, mountsReadable,
                                                    volumes, registryOk, listed)],
                               0, hangs)
        /\ UNCHANGED <<volumeVars, exceptExec>>

\* The child process exits and exec calls back.
ChildExit ==
    \E hangs \in BOOLEAN :
        /\ opCall.pc = "exec"
        /\ ~opCall.hangs
        /\ opCall' = AfterExec(opCall, opCall.i, hangs)
        /\ UNCHANGED <<volumeVars, exceptExec>>

\* The timeout of the exec call passes: the child is killed and exec calls
\* back with an error; after wevtutil el the default logs are queried.
ChildKilled ==
    \E hangs \in BOOLEAN :
        /\ opCall.pc = "exec"
        /\ ExecTimeout[opCall.plan[opCall.i]] > 0
        /\ LET plan == IF opCall.plan[opCall.i] = "wevtutilEl"
                       THEN scanEventLogsExecs(ExecError)
                       ELSE opCall.plan
           IN  opCall' = AfterExec([opCall EXCEPT !.plan = plan], opCall.i, hangs)
        /\ UNCHANGED <<volumeVars, exceptExec>>

----------------------------------------------------------------------------
(* Specifications *)

MachineInit ==
    /\ platform \in Platforms
    /\ mountsReadable \in (IF platform = "linux" THEN BOOLEAN ELSE {TRUE})
    /\ volumes \in VolumeLists

VolumesInit == MachineInit /\ drivesResult = NoDrives
RiskInit == riskProbes = NoProbes /\ riskResult = NoRisk
ScoreInit == scoreIn \in ScoreInputs /\ scoreOut = NoScore
ScoreIdle == scoreIn = [swap |-> FALSE, snapshots |-> FALSE, encryption |-> FALSE,
                        percentage |-> 0] /\ scoreOut = NoScore
MachineIdle ==
    /\ platform = "linux"
    /\ mountsReadable = TRUE
    /\ volumes = <<SkippedVolume>>
    /\ drivesResult = NoDrives

HiddenInit ==
    /\ \/ /\ platform = "win32"
          /\ winFs \in WinFileSystems
          /\ unixFs = [readable |-> FALSE, entries |-> <<>>]
          /\ scanHome = FALSE
       \/ /\ platform # "win32"
          /\ winFs = WinEnv(0, 1, TRUE, 0, 0, TRUE, {})
          /\ unixFs \in UnixTrees
          /\ scanHome \in BOOLEAN
    /\ tech = IdleTech
    /\ hiddenFiles = <<>>
    /\ hiddenResult = NoHiddenResult
HiddenIdle ==
    /\ unixFs = [readable |-> FALSE, entries |-> <<>>]
    /\ scanHome = FALSE
    /\ winFs = WinEnv(0, 1, TRUE, 0, 0, TRUE, {})
    /\ tech = IdleTech
    /\ hiddenFiles = <<>>
    /\ hiddenResult = NoHiddenResult

ReportInit ==
    /\ jsonFiles = <<>>
    /\ pdfFiles = {}
    /\ signatures = <<>>
    /\ nextId = 0
    /\ genCalls = {}
    /\ genResult = NoGen
    /\ verifyResult = NoVerify

WipeInit ==
    /\ wipe = [c \in WipeCalls |-> NoWipe]
    /\ senderAlive = TRUE
    /\ opCall = NoCall
    /\ eventResult = NoEventResult
    /\ wevtutil = NoWevtutil
    /\ previewResult = NoPreview
    /\ browserResult = NoBrowserResult
    /\ spaceOut = NoSpace

SpaceIdle == spaceIn = Statfs(FALSE, 0, 0, 4096)
BrowserIdle == browserFs = [platform |-> "freebsd", chrome |-> Missing,
                            chromium |-> Missing, firefox |-> Missing]
PreviewIdle == previewIn = [exists |-> FALSE, letters |-> 0, tail |-> <<>>]

Init ==
    /\ VolumesInit /\ RiskInit /\ ScoreInit /\ HiddenInit /\ ReportInit /\ WipeInit
    /\ previewIn \in PreviewFiles
    /\ browserFs \in BrowserFileSystems
    /\ spaceIn \in StatfsAnswers
ScanHiddenWindows ==
    \/ StartWindowsScan
    \/ CmdCallback \/ CmdStat
    \/ PsCallback
    \/ NodeReaddir \/ NodeStat
    \/ CommonAccess \/ CommonStat
    \/ FinishWindowsScan

Next ==
    \/ GetDrives \/ ComputeRecoverabilityScore \/ ApplyScore
    \/ ScanHiddenUnix \/ ScanHiddenWindows
    \/ GenerateScanReport \/ WritePdf \/ WriteJson \/ VerifyReport \/ TamperReport
    \/ \E c \in WipeCalls : SimulateSecureWipe(c) \/ WipeTick(c)
    \/ CloseWindow
    \/ Invoke \/ ChildExit \/ ChildKilled
    \/ ScanEventLogs
    \/ PreviewFile
    \/ ReportOfOtherRun
    \/ ScanBrowserProfiles
    \/ GetDriveSpace
Spec == Init /\ [][Next]_vars

\* The volume prober on every machine of the bounds.
InitVolumes ==
    VolumesInit /\ RiskInit /\ ScoreIdle /\ HiddenIdle /\ ReportInit /\ WipeInit /\ PreviewIdle /\ BrowserIdle /\ SpaceIdle
NextVolumes == GetDrives
SpecVolumes == InitVolumes /\ [][NextVolumes]_vars

\* The scorer on every machine of the bounds.
InitRisk ==
    VolumesInit /\ RiskInit /\ ScoreIdle /\ HiddenIdle /\ ReportInit /\ WipeInit /\ PreviewIdle /\ BrowserIdle /\ SpaceIdle
NextRisk == ComputeRecoverabilityScore
SpecRisk == InitRisk /\ [][NextRisk]_vars

\* The scorer on machines whose volumes have free-space shares on both sides
\* of 20 percent and of 20.5 percent.
FreeSpaceVolumes ==
    {SkippedVolume,
     [kind |-> "ok", statfs |-> "fail", blocks |-> 0, bavail |-> 0, bsize |-> 0,
      enc |-> "off"]}
    \cup { v \in [kind : {"ok"}, statfs : {"ok"}, blocks : {0, 4, 40, 44},
                  bavail : {0, 1, 4, 8, 9}, bsize : {4}, enc : {"off", "on"}] :
              v.bavail <= v.blocks }
InitFree ==
    /\ platform \in {"win32", "linux"}
    /\ mountsReadable = TRUE
    /\ volumes \in UNION { [1..n -> FreeSpaceVolumes] : n \in 1..MaxVolumes }
    /\ drivesResult = NoDrives
    /\ RiskInit /\ ScoreIdle /\ HiddenIdle /\ ReportInit /\ WipeInit /\ PreviewIdle /\ BrowserIdle /\ SpaceIdle
NextFree == ComputeRecoverabilityScore
SpecFree == InitFree /\ [][NextFree]_vars

\* The scoring arithmetic over all factor values.
InitScore ==
    MachineIdle /\ RiskInit /\ ScoreInit /\ HiddenIdle /\ ReportInit /\ WipeInit /\ PreviewIdle /\ BrowserIdle /\ SpaceIdle
NextScore == ApplyScore
SpecScore == InitScore /\ [][NextScore]_vars

\* The hidden-file scanner on every file system of the bounds.
InitHidden ==
    /\ platform \in {"win32", "linux"}
    /\ mountsReadable = TRUE
    /\ volumes = <<SkippedVolume>>
    /\ drivesResult = NoDrives
    /\ RiskInit /\ ScoreIdle /\ HiddenInit /\ ReportInit /\ WipeInit /\ PreviewIdle /\ BrowserIdle /\ SpaceIdle
NextHidden == ScanHiddenUnix \/ ScanHiddenWindows
SpecHidden == InitHidden /\ [][NextHidden]_vars

\* The report signer and verifier, and one change made to a report file.
InitReport ==
    MachineIdle /\ RiskInit /\ ScoreIdle /\ HiddenIdle /\ ReportInit /\ WipeInit /\ PreviewIdle /\ BrowserIdle /\ SpaceIdle
NextReport ==
    GenerateScanReport \/ ReportOfOtherRun \/ WritePdf \/ WriteJson \/ VerifyReport
    \/ TamperReport
SpecReport == InitReport /\ [][NextReport]_vars

\* The wipe simulation: concurrent calls, their timers, and the window.
InitWipe == MachineIdle /\ RiskInit /\ ScoreIdle /\ HiddenIdle /\ ReportInit /\ WipeInit /\ PreviewIdle /\ BrowserIdle /\ SpaceIdle
NextWipe ==
    \/ \E c \in WipeCalls : SimulateSecureWipe(c)
    \/ \E c \in WipeCalls : WipeTick(c)
    \/ CloseWindow
\* setInterval fires the callback of a pending call every second.
SpecWipe ==
    InitWipe /\ [][NextWipe]_vars /\ \A c \in WipeCalls : WF_vars(WipeTick(c))

\* Each boundary operation on its own, on a machine where the calls it makes
\* fail: the capacity and encryption queries, /proc/mounts, the registry of
\* handlers, the scan root, wevtutil, the previewed file, the browser
\* directories and the writes of the report files.
NoOperationYet ==
    /\ senderAlive
    /\ drivesResult = NoDrives
    /\ riskResult = NoRisk
    /\ hiddenResult = NoHiddenResult
    /\ nextId = 0
    /\ \A c \in WipeCalls : wipe[c].pc = "idle"
    /\ eventResult = NoEventResult
    /\ ~previewResult.done
    /\ ~browserResult.done
InitBoundary ==
    /\ platform \in {"linux", "win32"}
    /\ mountsReadable \in (IF platform = "linux" THEN BOOLEAN ELSE {TRUE})
    /\ volumes \in { <<v>> : v \in { w \in VolumeEnvs :
                                       /\ w.kind = "ok" /\ w.statfs = "fail"
                                       /\ w.enc \in {"on", "error"} } }
    /\ drivesResult = NoDrives
    /\ RiskInit /\ ScoreIdle /\ HiddenIdle /\ ReportInit /\ WipeInit
    /\ previewIn \in { f \in PreviewFiles : f.letters = 0 /\ f.tail = <<>> }
    /\ browserFs \in { fs \in BrowserFileSystems :
                          /\ fs.platform = "linux"
                          /\ fs.chrome \in {Missing, Unreadable}
                          /\ fs.chromium = Missing
                          /\ fs.firefox = Unreadable }
    /\ SpaceIdle
NextBoundary ==
    \/ NoOperationYet /\ GetDrives
    \/ NoOperationYet /\ ComputeRecoverabilityScore
    \/ NoOperationYet /\ ScanHiddenUnix
    \/ NoOperationYet /\ PreviewFile
    \/ NoOperationYet /\ ScanBrowserProfiles
    \/ /\ NoOperationYet /\ ScanEventLogs
       /\ ~wevtutil'.listed.ok /\ ~wevtutil'.outputs["System"].ok
    \/ NoOperationYet /\ GenerateScanReport
    \/ senderAlive /\ WritePdf
    \/ senderAlive /\ WriteJson
    \/ senderAlive /\ VerifyReport
    \/ \E c \in WipeCalls : NoOperationYet /\ SimulateSecureWipe(c)
    \/ \E c \in WipeCalls : WipeTick(c)
    \/ CloseWindow
SpecBoundary == InitBoundary /\ [][NextBoundary]_vars

\* The file preview on every file of the bounds.
InitPreview ==
    /\ MachineIdle /\ RiskInit /\ ScoreIdle /\ HiddenIdle /\ ReportInit /\ WipeInit
    /\ previewIn \in PreviewFiles
    /\ BrowserIdle /\ SpaceIdle
NextPreview == PreviewFile
SpecPreview == InitPreview /\ [][NextPreview]_vars

\* The capacity query on volumes of real sizes.
InitSpace ==
    /\ MachineIdle /\ RiskInit /\ ScoreIdle /\ HiddenIdle /\ ReportInit /\ WipeInit
    /\ PreviewIdle /\ BrowserIdle
    /\ spaceIn \in StatfsAnswers
NextSpace == GetDriveSpace
SpecSpace == InitSpace /\ [][NextSpace]_vars

\* The browser profile scanner on every browser file system of the bounds.
InitBrowser ==
    /\ MachineIdle /\ RiskInit /\ ScoreIdle /\ HiddenIdle /\ ReportInit /\ WipeInit
    /\ PreviewIdle
    /\ browserFs \in BrowserFileSystems
    /\ SpaceIdle
NextBrowser == ScanBrowserProfiles
SpecBrowser == InitBrowser /\ [][NextBrowser]_vars

\* The event-log scanner on every platform.
InitEvents ==
    /\ platform \in Platforms
    /\ mountsReadable = TRUE
    /\ volumes = <<SkippedVolume>>
    /\ drivesResult = NoDrives
    /\ RiskInit /\ ScoreIdle /\ HiddenIdle /\ ReportInit /\ WipeInit /\ PreviewIdle /\ BrowserIdle /\ SpaceIdle
NextEvents == ScanEventLogs
SpecEvents == InitEvents /\ [][NextEvents]_vars

\* The operations that start subprocesses, on machines with up to MaxVolumes
\* volumes. A child that exits calls back in the end, and so does a timeout.
ExecVolumes ==
    UNION { [1..n -> {SkippedVolume,
                      [kind |-> "ok", statfs |-> "ok", blocks |-> 4, bavail |-> 0,
                       bsize |-> 4, enc |-> "off"]}] : n \in 1..MaxVolumes }
InitExec ==
    /\ platform \in Platforms
    /\ mountsReadable \in (IF platform = "linux" THEN BOOLEAN ELSE {TRUE})
    /\ volumes \in ExecVolumes
    /\ drivesResult = NoDrives
    /\ RiskInit /\ ScoreIdle /\ HiddenIdle /\ ReportInit /\ WipeInit /\ PreviewIdle /\ BrowserIdle /\ SpaceIdle
NextExec == Invoke \/ ChildExit \/ ChildKilled
SpecExec ==
    InitExec /\ [][NextExec]_vars /\ WF_vars(ChildExit) /\ WF_vars(ChildKilled)

----------------------------------------------------------------------------
(* Properties of the scorer *)

Bit(b) == IF b THEN 1 ELSE 0
Clamp(x, lo, hi) == IF x < lo THEN lo ELSE IF x > hi THEN hi ELSE x

\* C1: for every combination of the three flags and a free-space percentage
\* in 0..100 the score is clamp(50 + 20*[swap] + 25*[snapshots]
\* - 30*[encryption] + 15*[percentage > 20], 0, 100), so it lies in 0..100,
\* and risk is HIGH iff score > 70, MEDIUM iff 40 < score <= 70, LOW otherwise.
C1_ScoreFormula ==
    scoreOut.done =>
        /\ scoreOut.score =
             Clamp(50 + 20 * Bit(scoreIn.swap) + 25 * Bit(scoreIn.snapshots)
                      - 30 * Bit(scoreIn.encryption)
                      + 15 * Bit(scoreIn.percentage > 20), 0, 100)
        /\ scoreOut.score \in 0..100
        /\ (scoreOut.risk = "HIGH") <=> (scoreOut.score > 70)
        /\ (scoreOut.risk = "MEDIUM") <=> (scoreOut.score > 40 /\ scoreOut.score <= 70)
        /\ (scoreOut.risk = "LOW") <=> (scoreOut.score <= 40)

\* All three flags true with 25% free gives 80 / HIGH.
C1_Witness ==
    /\ scoreOut.done
    /\ scoreIn = [swap |-> TRUE, snapshots |-> TRUE, encryption |-> TRUE,
                  percentage |-> 25]
    /\ scoreOut.score = 80
    /\ scoreOut.risk = "HIGH"

\* C7: with swap presence, snapshot presence and free-space percentage held
\* fixed, the score with encryption enabled is at most the score with
\* encryption disabled, and strictly less unless both sit at 0 or at 100.
C7_EncryptionMonotone ==
    (scoreOut.done /\ scoreIn.encryption) =>
        LET off == ScoreOf(scoreIn.swap, scoreIn.snapshots, FALSE, scoreIn.percentage)
        IN  /\ scoreOut.score <= off
            /\ \/ scoreOut.score < off
               \/ scoreOut.score = off /\ off \in {0, 100}

\* Encryption enabled where the disabled score is clamped to 100.
C7_Witness ==
    /\ scoreOut.done
    /\ scoreIn.encryption
    /\ scoreOut.score = 80
    /\ ScoreOf(scoreIn.swap, scoreIn.snapshots, FALSE, scoreIn.percentage) = 100

\* C6 as stated: whenever the swap-file check, the snapshot check, a volume's
\* space or encryption probe, or the volume lookup fails, the result is
\* risk UNKNOWN and score 0 with an error.
C6_AnyFailureIsUnknown ==
    (/\ riskResult.status # "none"
     /\ \/ riskProbes.swap = "fail"
        \/ riskProbes.snapshots = "fail"
        \/ ~riskProbes.registry
        \/ \E i \in DOMAIN volumes :
              volumes[i].kind = "ok"
              /\ (volumes[i].statfs = "fail" \/ volumes[i].enc = "error"))
    => (riskResult.status = "error" /\ riskResult.risk = "UNKNOWN"
        /\ riskResult.score = 0)

\* C6 as the handler behaves: the result is risk UNKNOWN and score 0 with an
\* error exactly when the volume lookup of the encryption check throws; a
\* failing swap-file or snapshot check is recorded as present = false and the
\* result carries the numeric score computed with that default.
C6_OnlyEscapingFailureIsUnknown ==
    riskResult.status # "none" =>
        /\ (riskResult.status = "error") <=> ~riskProbes.registry
        /\ riskResult.status = "error" =>
             (riskResult.risk = "UNKNOWN" /\ riskResult.score = 0)
        /\ riskResult.status = "ok" =>
             /\ riskResult.risk \in {"LOW", "MEDIUM", "HIGH"}
             /\ riskProbes.swap = "fail" => ~riskResult.factors.swapFile.present
             /\ riskProbes.snapshots = "fail" => ~riskResult.factors.snapshots.present
             /\ riskResult.score =
                  Clamp(50 + 20 * Bit(riskResult.factors.swapFile.present)
                           + 25 * Bit(riskResult.factors.snapshots.present)
                           - 30 * Bit(riskResult.factors.encryption.enabled)
                           + 15 * Bit(riskResult.factors.freeSpace.percentage > 20),
                        0, 100)

\* A failed swap-file check behind a numeric score.
C6_Witness ==
    /\ riskResult.status = "ok"
    /\ riskProbes.swap = "fail"
    /\ riskProbes.registry
    /\ riskResult.risk = "MEDIUM"

----------------------------------------------------------------------------
(* Properties of the volume prober *)

\* C10: every volume returned has used + free = total and a usagePercent
\* between 0 and 100, and usagePercent is 0 whenever total is 0, also when
\* statfs succeeds and reports zero blocks.
C10_VolumeArithmetic ==
    drivesResult.called =>
        \A i \in DOMAIN drivesResult.drives :
            LET d == drivesResult.drives[i]
            IN  /\ d.used + d.free = d.total
                /\ d.usagePercent.kind = "num"
                /\ d.usagePercent.tenths \in 0..1000
                /\ d.total = 0 => d.usagePercent = NumPercent(0)

----------------------------------------------------------------------------
(* Properties of the hidden-file scanner *)

\* C4: every result has at most 200 files, totalScanned is at least the
\* number of files returned, and the files are in non-increasing order of
\* size, on either platform branch and in any completion order of the win32
\* techniques.
C4_ResultShape ==
    hiddenResult.status = "ok" =>
        /\ Len(hiddenResult.files) <= 200
        /\ hiddenResult.totalScanned >= Len(hiddenResult.files)
        /\ \A i \in 1..(Len(hiddenResult.files) - 1) :
              hiddenResult.files[i].size >= hiddenResult.files[i + 1].size

\* A win32 scan whose techniques pushed more than 200 entries of different
\* sizes, the larger ones after the smaller ones.
C4_Witness ==
    /\ platform = "win32"
    /\ hiddenResult.status = "ok"
    /\ hiddenResult.totalScanned > 200
    /\ Len(hiddenResult.files) = 200
    /\ hiddenResult.files[1].technique = "cmd"
    /\ hiddenResult.files[1].size > hiddenResult.files[200].size

\* The dot-entries that can be stat'ed under dir, directories followed while
\* depth < 2: what a scan without a cap would collect.
RECURSIVE Qualifying(_, _)
RECURSIVE QualifyingFrom(_, _, _)
Qualifying(dir, depth) ==
    IF ~dir.readable THEN 0 ELSE QualifyingFrom(dir.entries, 1, depth)

QualifyingFrom(entries, i, depth) ==
    IF i > Len(entries) THEN 0
    ELSE LET e == entries[i]
             here == IF ~e.dot \/ ~e.statOk THEN 0
                     ELSE IF e.kind = "file" THEN e.n
                     ELSE 1 + (IF depth < 2 THEN Qualifying(e, depth + 1) ELSE 0)
         IN  here + QualifyingFrom(entries, i + 1, depth)

\* C5 as stated: when the tree holds more than 200 qualifying entries within
\* the depth bound, totalScanned is that full number while files holds 200.
C5_TotalIsTrueCount ==
    (/\ hiddenResult.status = "ok"
     /\ platform # "win32"
     /\ ~scanHome
     /\ Qualifying(unixFs, 0) > 200)
    => (/\ hiddenResult.totalScanned = Qualifying(unixFs, 0)
        /\ Len(hiddenResult.files) = 200)

\* C5 as the scanner behaves on the unix branch: collection stops at 200
\* entries, so totalScanned is the number of entries collected, equal to the
\* number of files returned and never above 200; for a scan path other than
\* the home directory it is the smaller of the qualifying count and 200.
C5_TotalIsCappedCount ==
    (hiddenResult.status = "ok" /\ platform # "win32") =>
        /\ hiddenResult.totalScanned = Len(hiddenResult.files)
        /\ hiddenResult.totalScanned <= 200
        /\ ~scanHome =>
              hiddenResult.totalScanned = Min(Qualifying(unixFs, 0), 200)

\* A tree with more than 200 qualifying entries, scanned.
C5_Witness ==
    /\ platform # "win32"
    /\ ~scanHome
    /\ hiddenResult.status = "ok"
    /\ Qualifying(unixFs, 0) > 200
    /\ hiddenResult.totalScanned = 200
    /\ Len(hiddenResult.files) = 200

----------------------------------------------------------------------------
(* Properties of the report signer and verifier *)

WrittenReport(f) == JSONparse(jsonFiles[f].written).obj

\* C2: for every scanData, also one carrying keys named signature, publicKey,
\* reportId, timestamp or version, verifying the file that was persisted, in
\* the same process, returns valid = true.
C2_RoundTrip ==
    (/\ verifyResult.status = "done"
     /\ verifyResult.file > 0
     /\ jsonFiles[verifyResult.file].content = jsonFiles[verifyResult.file].written)
    => verifyResult.valid

\* C8: the payload that is signed never contains a signature or publicKey
\* field, and equals what the verifier obtains by stripping signature and
\* publicKey from the persisted report.
C8_SignedPayloadIsStrippedReport ==
    \A f \in DOMAIN jsonFiles :
        /\ ~HasKey(jsonFiles[f].payload, Key("signature"))
        /\ ~HasKey(jsonFiles[f].payload, Key("publicKey"))
        /\ jsonFiles[f].payload = RestOf(WrittenReport(f))

\* C9: the identifier generated by a call is the reportId returned, the
\* reportId field of the persisted report and the name of both files, and
\* no two calls share an identifier.
C9_OneIdentifier ==
    /\ \A f \in DOMAIN jsonFiles :
          /\ Get(WrittenReport(f), Key("reportId")) = Val("uuid", jsonFiles[f].name)
          /\ jsonFiles[f].name \in pdfFiles
    /\ genResult.success =>
          /\ genResult.reportId = Val("uuid", genResult.jsonPath)
          /\ genResult.jsonPath = genResult.pdfPath
          /\ \E f \in DOMAIN jsonFiles : jsonFiles[f].name = genResult.jsonPath
    /\ \A f, g \in DOMAIN jsonFiles :
          jsonFiles[f].name = jsonFiles[g].name => f = g

\* What the verifier reads in a file: the parsed object, with the signature
\* text taken for the bytes it decodes to and the public key text for the
\* key it decodes to.
Meaning(content) ==
    LET parsed == JSONparse(content)
    IN  [ok |-> parsed.ok,
         obj |-> [i \in DOMAIN parsed.obj |->
                    IF parsed.obj[i].k \in {Key("signature"), Key("publicKey")}
                    THEN Prop(parsed.obj[i].k, [parsed.obj[i].v EXCEPT !.pad = 0])
                    ELSE parsed.obj[i]]]

Changed(f) == f > 0 /\ jsonFiles[f].content # jsonFiles[f].written

\* C3 as stated: after any single-byte change to a persisted report, in a
\* scan section, in reportId, timestamp or version, in the signature or in
\* the whitespace between tokens, verification returns valid = false.
C3_AnyChangeIsDetected ==
    (verifyResult.status = "done" /\ Changed(verifyResult.file))
    => ~verifyResult.valid

\* C3 as the verifier behaves: a single-byte change that alters what the
\* file parses to (a key, a value, the decoded signature, the embedded key,
\* or the syntax) yields valid = false; a change confined to the whitespace
\* between tokens (also inside a scan section), to the unused trailing bits
\* of the base64 signature, or to bytes of the public key text that leave
\* the key it decodes to, leaves valid what it is for the file as written.
C3_ChangeOfMeaningIsDetected ==
    (verifyResult.status = "done" /\ Changed(verifyResult.file)) =>
        LET file == jsonFiles[verifyResult.file]
        IN  IF Meaning(file.content) = Meaning(file.written)
            THEN verifyResult.valid = verifyReport(signatures, file.written).valid
            ELSE ~verifyResult.valid

\* A report that verifies as written, one byte of its signature text changed
\* without changing the bytes it decodes to, verified.
C3_Witness ==
    /\ verifyResult.status = "done"
    /\ Changed(verifyResult.file)
    /\ Meaning(jsonFiles[verifyResult.file].content)
         = Meaning(jsonFiles[verifyResult.file].written)
    /\ \E i \in DOMAIN jsonFiles[verifyResult.file].content :
          jsonFiles[verifyResult.file].content[i].pad = 1
    /\ verifyResult.valid

----------------------------------------------------------------------------
(* Properties of the volume prober: failures *)

\* The volumes the prober looks at one by one: drive letters on win32, the
\* lines of a readable /proc/mounts on linux.
ProbedOneByOne == platform = "win32" \/ (platform = "linux" /\ mountsReadable)

FailedProbe(v) == v.kind = "ok" /\ (v.statfs = "fail" \/ v.enc = "error")

Returned(i) == \E j \in DOMAIN drivesResult.drives : drivesResult.drives[j].name = i

\* C11 as stated: a volume whose capacity query or encryption query fails is
\* absent from the returned sequence while every other volume is returned,
\* and when the whole probe fails the result is the empty sequence.
C11_FailedVolumeIsSkipped ==
    drivesResult.called =>
        /\ ProbedOneByOne =>
              \A i \in DOMAIN volumes :
                  /\ FailedProbe(volumes[i]) => ~Returned(i)
                  /\ (volumes[i].kind = "ok" /\ ~FailedProbe(volumes[i])) => Returned(i)
        /\ (platform = "linux" /\ ~mountsReadable) => drivesResult.drives = <<>>

\* C11 as the prober behaves: a volume is absent only when it is not a
\* volume to probe (the stat of the drive letter fails, the mount line is no
\* /dev device); a volume whose capacity query fails is returned with sizes
\* 0 and usagePercent 0, one whose encryption query fails is returned as not
\* encrypted with status Unknown; when the mount table cannot be read the
\* result is the root volume alone, not the empty sequence.
C11_FailedVolumeIsDefaulted ==
    drivesResult.called =>
        /\ ProbedOneByOne =>
              /\ \A i \in DOMAIN volumes : Returned(i) <=> volumes[i].kind = "ok"
              /\ \A j \in DOMAIN drivesResult.drives :
                    LET d == drivesResult.drives[j]
                        v == volumes[d.name]
                    IN  /\ v.statfs = "fail" =>
                             (d.total = 0 /\ d.free = 0 /\ d.used = 0
                              /\ d.usagePercent = NumPercent(0))
                        /\ v.enc = "error" =>
                             (~d.encrypted /\ d.encryptionStatus = "Unknown")
                        /\ \A k \in DOMAIN drivesResult.drives :
                              j < k => d.name < drivesResult.drives[k].name
        /\ ~ProbedOneByOne => Len(drivesResult.drives) = 1

\* Two drive letters, the capacity query of the first failing: both returned.
C11_Witness ==
    /\ drivesResult.called
    /\ platform = "win32"
    /\ Len(volumes) = 2
    /\ volumes[1].kind = "ok" /\ volumes[1].statfs = "fail"
    /\ volumes[2].kind = "ok" /\ volumes[2].statfs = "ok"
    /\ Len(drivesResult.drives) = 2
    /\ drivesResult.drives[1].total = 0

----------------------------------------------------------------------------
(* Properties of the wipe simulation *)

ProgressSoFar(c) ==
    LET events == wipe[c].events
    IN  /\ Len(events) <= 8
        /\ \A i \in DOMAIN events :
              /\ events[i].step = i
              /\ events[i].totalSteps = 8
              /\ events[i].progress = (2 * i * 100 + 8) \div 16
              /\ events[i].completed <=> i = 8
              /\ i > 1 => events[i - 1].progress <= events[i].progress
        /\ wipe[c].pc = "done" <=> Len(events) = 8
        /\ wipe[c].pc = "done" => wipe[c].success

\* C20: one call emits exactly 8 events, those of steps 1, 2, ..., 8 in that
\* order, each with totalSteps 8 and progress round(step / 8 * 100),
\* non-decreasing, completed only on the 8th; the result is delivered only
\* after the 8th event and no event is emitted afterwards. A call of a
\* program that runs on reaches its 8th event and its result.
C20_ProgressEvents ==
    \A c \in WipeCalls :
        /\ [](ProgressSoFar(c))
        /\ (wipe[c].pc = "running")
              ~> ((wipe[c].pc = "done" /\ Len(wipe[c].events) = 8) \/ ~senderAlive)

\* No event is emitted once the result has been delivered.
C20_Witness ==
    \E c \in WipeCalls :
        /\ wipe[c].pc = "done"
        /\ Len(wipe[c].events) = 8
        /\ wipe[c].events[8].completed
        /\ wipe[c].events[8].progress = 100
        /\ wipe[c].events[3].progress = 38

----------------------------------------------------------------------------
(* Properties of the operations that start subprocesses *)

\* C13: no operation blocks indefinitely: an operation that waits for a
\* subprocess returns in the end, also when the subprocess never exits,
\* because every subprocess call is given a timeout.
C13_EveryOperationReturns == (opCall.pc = "exec") ~> (opCall.pc = "returned")

----------------------------------------------------------------------------
(* Properties of the report files *)

HasJson(id) == \E f \in DOMAIN jsonFiles : jsonFiles[f].name = id

\* C14: when a call returns, the pdf and the json file of its report are
\* both present and success is true, or success is false and neither file
\* of the pair is left behind.
C14_ReportPairIsAtomic ==
    genResult.status = "done" =>
        IF genResult.success
        THEN genResult.call \in pdfFiles /\ HasJson(genResult.call)
        ELSE genResult.call \notin pdfFiles /\ ~HasJson(genResult.call)

----------------------------------------------------------------------------
(* Properties of the event-log scanner *)

\* C15: privacyRisk of every emitted entry is a function of its eventId
\* alone: High iff the eventId is one of 4624, 4625, 4648, 4720, 4726, 104,
\* Medium iff one of 4798, 4799, 1074, 6005, 6006, Low otherwise, whatever
\* the description, the log and the position of the entry.
C15_RiskByEventId ==
    \A i \in DOMAIN eventResult.logs :
        LET e == eventResult.logs[i]
        IN  /\ (e.privacyRisk = "High")
                  <=> (e.eventId \in {"4624", "4625", "4648", "4720", "4726", "104"})
            /\ (e.privacyRisk = "Medium")
                  <=> (e.eventId \in {"4798", "4799", "1074", "6005", "6006"})
            /\ (e.privacyRisk = "Low")
                  <=> (e.eventId \notin {"4624", "4625", "4648", "4720", "4726", "104",
                                         "4798", "4799", "1074", "6005", "6006"})

\* Two entries of one scan: an eventId outside both lists whose description
\* speaks of a cleared log, then 4624 in another log.
C15_Witness ==
    /\ eventResult.status = "done"
    /\ Len(eventResult.logs) >= 3
    /\ eventResult.logs[1].eventId = "1102"
    /\ eventResult.logs[1].description = "log cleared"
    /\ eventResult.logs[1].privacyRisk = "Low"
    /\ eventResult.logs[2].eventId = "4624"
    /\ eventResult.logs[2].privacyRisk = "High"
    /\ eventResult.logs[3].logSource # eventResult.logs[2].logSource

\* C17: on a platform other than Windows the result has a non-empty error,
\* no logs and totalEntries 0, and no log query has been run.
C17_UnsupportedPlatform ==
    (eventResult.status = "done" /\ platform # "win32") =>
        /\ eventResult.error
        /\ eventResult.logs = <<>>
        /\ eventResult.totalEntries = 0
        /\ eventResult.queries = 0

\* A scan on linux.
C17_Witness ==
    /\ platform = "linux"
    /\ eventResult.status = "done"
    /\ eventResult.error
    /\ eventResult.queries = 0

\* The bytes claim C16 calls control bytes: below 0x20 other than tab, LF and
\* CR, and 0x7F.
ControlByte(b) == (b \in 0..31 /\ b \notin {9, 10, 13}) \/ b = 127
HasControlByte(file) == \E i \in DOMAIN TailRead(file) : ControlByte(TailRead(file)[i])

\* C16: a preview of a file that can be opened is binary, with the marker in
\* place of the content, exactly when the bytes read (at most 2048) hold a
\* control byte other than tab, LF and CR; otherwise it is the decoded content.
C16_ControlByteIsBinary ==
    (previewResult.done /\ previewIn.exists) =>
        /\ previewResult.isBinary = HasControlByte(previewIn)
        /\ previewResult.isBinary => previewResult.content = "marker"
        /\ ~previewResult.isBinary =>
              /\ previewResult.content = "text"
              /\ previewResult.tail = TailRead(previewIn)

----------------------------------------------------------------------------
(* Properties of the life of a report *)

\* A report text is signed when it is an object with both a signature and a
\* public key.
IsSignedText(content) ==
    /\ JSONparse(content).ok
    /\ HasKey(JSONparse(content).obj, Key("signature"))
    /\ HasKey(JSONparse(content).obj, Key("publicKey"))

Verified == verifyResult.status = "done" /\ verifyResult.file > 0
VerifiedText == jsonFiles[verifyResult.file].content

\* C18: a signed report comes into being only by a generate-scan-report
\* call, at the write of its .json, with signature and public key; the
\* report a successful call of this process returns is the one it wrote; no
\* step of the program changes a report once written (verify-report only
\* reads it); and verify-report on a text without signature or public key
\* answers valid = false with an error.
C18_ReportLifecycle ==
    [][ /\ \A f \in DOMAIN jsonFiles :
              /\ f \in DOMAIN jsonFiles'
              /\ jsonFiles'[f].written = jsonFiles[f].written
              /\ (nextId' # nextId \/ genCalls' # genCalls \/ verifyResult' # verifyResult)
                    => jsonFiles'[f].content = jsonFiles[f].content
        /\ verifyResult' # verifyResult => jsonFiles' = jsonFiles
        /\ Len(jsonFiles') > Len(jsonFiles) =>
              /\ Len(jsonFiles') = Len(jsonFiles) + 1
              /\ IsSignedText(jsonFiles'[Len(jsonFiles')].content)
              /\ \E c \in genCalls \ genCalls' :
                    c.pc = "json" /\ c.id = jsonFiles'[Len(jsonFiles')].name
        /\ (genResult' # genResult /\ genResult'.success) =>
              /\ Len(jsonFiles') = Len(jsonFiles) + 1
              /\ jsonFiles'[Len(jsonFiles')].signer = SIGNING_KEYS.privateKey
              /\ jsonFiles'[Len(jsonFiles')].name = genResult'.call
        /\ (verifyResult'.status = "done" /\ verifyResult'.file > 0
              /\ ~IsSignedText(jsonFiles'[verifyResult'.file].content))
             => (~verifyResult'.valid /\ verifyResult'.error)
      ]_vars

\* A report whose "signature" or "publicKey" key no longer reads so was
\* verified, and was refused with an error.
C18_Witness ==
    /\ Verified
    /\ JSONparse(VerifiedText).ok
    /\ ~IsSignedText(VerifiedText)
    /\ ~verifyResult.valid /\ verifyResult.error
    /\ jsonFiles[verifyResult.file].written # VerifiedText

\* The text is signed with the pair of public key k: it embeds k, and its
\* signature is one made with k's private key over the text's other fields.
SignedWith(sigs, content, k) ==
    LET obj == JSONparse(content).obj
        sig == Base64Decode(Get(obj, Key("signature")))
    IN  /\ IsSignedText(content)
        /\ Get(obj, Key("publicKey")) = Val("key", k)
        /\ sig \in DOMAIN sigs
        /\ sigs[sig] = [key |-> k, msg |-> JSONstringify(RestOf(obj))]

\* C19: publicKeyMatch says whether the embedded public key is the running
\* process's; valid with publicKeyMatch holds only for a report signed with
\* the running process's key, and a report signed with another pair that
\* embeds that pair's public key is valid with publicKeyMatch = false.
C19_KeyMatchIsSeparate ==
    (Verified /\ ~verifyResult.error) =>
        /\ verifyResult.publicKeyMatch
              = (Get(JSONparse(VerifiedText).obj, Key("publicKey")) = SIGNING_KEYS.publicKey)
        /\ (verifyResult.valid /\ verifyResult.publicKeyMatch)
              => SignedWith(signatures, VerifiedText, ProcessKey)
        /\ SignedWith(signatures, VerifiedText, OtherKey)
              => (verifyResult.valid /\ ~verifyResult.publicKeyMatch)

\* An untouched report of another run was verified: valid, key not matching.
C19_Witness ==
    /\ Verified
    /\ jsonFiles[verifyResult.file].signer = OtherKey
    /\ jsonFiles[verifyResult.file].written = VerifiedText
    /\ SignedWith(signatures, VerifiedText, OtherKey)
    /\ verifyResult.valid /\ ~verifyResult.publicKeyMatch

----------------------------------------------------------------------------
(* Properties of the browser profile scanner *)

\* The profile directories of a data directory that hold no allowlisted file
\* that can be stat'ed.
EmptyProfileDirs(dir, names, allow) ==
    { i \in DOMAIN dir.entries :
        /\ dir.entries[i].isDirectory
        /\ dir.entries[i].name \in names
        /\ dir.entries[i].statable \cap allow = {} }

ChromeAllow == {"Login Data", "Cookies", "History", "Bookmarks", "Preferences"}
FirefoxAllow == {"logins.json", "cookies.sqlite", "places.sqlite", "key4.db", "prefs.js"}

\* C21: every profile returned by scan-browser-profiles has at least one
\* file, a profile directory none of whose allowlisted files can be stat'ed
\* is not returned, and totalFound is the number of profiles returned.
C21_ProfilesHaveArtifacts ==
    browserResult.done =>
        /\ \A i \in DOMAIN browserResult.profiles :
              Len(browserResult.profiles[i].files) >= 1
        /\ browserResult.totalFound = Len(browserResult.profiles)
        /\ \A i \in EmptyProfileDirs(browserFs.chrome, {"Default", "Profile 1", "Profile.bak"},
                                      ChromeAllow) :
              \A j \in DOMAIN browserResult.profiles :
                 browserResult.profiles[j].profilePath
                    # <<"chrome", browserFs.chrome.entries[i].name>>
                 \/ \E k \in DOMAIN browserFs.chrome.entries :
                       /\ k # i
                       /\ browserFs.chrome.entries[k].name = browserFs.chrome.entries[i].name
        /\ \A i \in EmptyProfileDirs(browserFs.firefox, {"abc.default", "Profile.bak"},
                                      FirefoxAllow) :
              \A j \in DOMAIN browserResult.profiles :
                 browserResult.profiles[j].profilePath
                    # <<"firefox", browserFs.firefox.entries[i].name>>
                 \/ \E k \in DOMAIN browserFs.firefox.entries :
                       /\ k # i
                       /\ browserFs.firefox.entries[k].name = browserFs.firefox.entries[i].name

\* A scan that returned a profile and dropped a profile directory holding
\* only files off the allowlist.
C21_Witness ==
    /\ browserResult.done
    /\ browserResult.totalFound >= 1
    /\ browserFs.platform = "linux"
    /\ browserFs.chrome.state = "listed"
    /\ EmptyProfileDirs(browserFs.chrome, {"Default", "Profile 1", "Profile.bak"},
                        ChromeAllow) # {}

----------------------------------------------------------------------------
(* Properties of the capacity fields *)

\* The volume of 537109504000 bytes with 161406156800 free, in blocks of 4096
\* bytes: 131130250 * 4096 and 39405800 * 4096.
ScenarioVolume == Statfs(TRUE, 131130250, 39405800, 4096)

\* C22 as stated: for the volume of 537109504000 bytes with 161406156800
\* free, usedGB is "349.77" and usagePercent is "70.0".
C22_ScenarioAsStated ==
    (spaceOut.done /\ spaceIn = ScenarioVolume) =>
        /\ spaceOut.usedGB = 34977
        /\ spaceOut.usagePercent = NumPercent(700)

\* C22: for that volume usedGB is "349.90" and usagePercent is "69.9", the
\* values of (total - free) / 1024^3 to 2 decimals and of (total - free) /
\* total * 100 to 1 decimal; and used and free GB never exceed total GB.
C22_ScenarioFields ==
    (spaceOut.done /\ spaceIn.ok) =>
        /\ spaceIn = ScenarioVolume =>
              /\ spaceOut.usedGB = 34990
              /\ spaceOut.usagePercent = NumPercent(699)
        /\ spaceOut.usedGB <= spaceOut.totalGB
        /\ spaceOut.freeGB <= spaceOut.totalGB
        /\ spaceIn.blocks > 0 =>
              /\ spaceOut.usagePercent.kind = "num"
              /\ spaceOut.usagePercent.tenths \in 0..1000
              /\ spaceIn.bavail = 0 => spaceOut.usagePercent.tenths = 1000
              /\ spaceIn.bavail = spaceIn.blocks => spaceOut.usagePercent.tenths = 0

C22_Witness ==
    /\ spaceOut.done
    /\ spaceIn = ScenarioVolume
    /\ spaceOut.totalGB = 50022
    /\ spaceOut.usedGB = 34990

----------------------------------------------------------------------------
(* Properties of the hidden-file scanner: the shared collection *)

\* C29: during a win32 scan the shared collection never holds more than 200
\* entries, in any interleaving of the techniques' steps.
C29_CollectionWithinLimit ==
    platform = "win32" => Len(hiddenFiles) <= maxFiles

\* What the four techniques push when they run one after the other, each to
\* its end before the next starts: the common locations, then the dir
\* command, then PowerShell, then readdir.
OneByOne(fs) ==
    LET commonK == IF fs.commonStatOk
                   THEN Min(Cardinality(fs.commonAt), maxFiles \div 3)
                   ELSE 0
        RECURSIVE Names(_, _)
        Names(i, k) ==
            IF k = 0 \/ i > NumCommonNames THEN <<>>
            ELSE IF i \in fs.commonAt
                 THEN <<HiddenEntry(1, i, IF fs.commonFile THEN fs.commonSize ELSE 0,
                                    ~fs.commonFile, "common")>> \o Names(i + 1, k - 1)
                 ELSE Names(i + 1, k)
        common == Names(1, commonK)
        cmdK == IF fs.cmdStatOk
                THEN Min(fs.cmdN, Min(maxFiles \div 4, maxFiles - Len(common)))
                ELSE 0
        cmd == [j \in 1..cmdK |-> CmdEntry(fs, j)]
        psK == Min(fs.psN, maxFiles - Len(common) - Len(cmd))
        ps == [j \in 1..psK |-> HiddenEntry(1, j, fs.psSize, FALSE, "ps")]
        nodeK == IF fs.nodeReadable /\ fs.nodeStatOk
                 THEN Min(fs.nodeN,
                          Min(maxFiles \div 3, maxFiles - Len(common) - Len(cmd) - Len(ps)))
                 ELSE 0
        node == [j \in 1..nodeK |-> HiddenEntry(1, j, fs.nodeSize, FALSE, "node")]
    IN  common \o cmd \o ps \o node

\* C23: on win32 the files and totalScanned returned are the same in every
\* interleaving and completion order of the four techniques: they are those
\* of the run in which the techniques complete one after the other.
C23_OrderIndependent ==
    (platform = "win32" /\ hiddenResult.status = "ok") =>
        /\ hiddenResult.files = sliceFiles(sortBySize(OneByOne(winFs)))
        /\ hiddenResult.totalScanned = Len(OneByOne(winFs))

\* The run in which the techniques complete one after the other is one of
\* the runs.
C23_OneByOneHappens ==
    /\ platform = "win32" /\ hiddenResult.status = "ok"
    /\ winFs.cmdN > 0 /\ winFs.cmdStatOk /\ winFs.nodeN > 0 /\ winFs.nodeReadable
    /\ hiddenResult.files = sliceFiles(sortBySize(OneByOne(winFs)))
    /\ hiddenResult.totalScanned = Len(OneByOne(winFs))

\* The entries of the collection that technique t pushed.
Contribution(t) == Len(SelectSeq(hiddenFiles, LAMBDA f : f.technique = t))

\* C24: in one scan each technique contributes at most floor(200/3) = 66
\* entries, the dir /A:H query at most floor(200/4) = 50, whatever its source
\* yields, on win32 and on the other platforms.
C24_TechniqueQuota ==
    /\ Contribution("cmd") <= maxFiles \div 4
    /\ \A t \in {"ps", "node", "common", "unix"} : Contribution(t) <= maxFiles \div 3

\* C25: every entry the scanner collects lies at most 3 levels below the scan
\* path (an entry of the scan path itself lies 1 level below it), also in the
\* pass over the well-known directories of the home directory.
C25_DepthBound ==
    \A i \in DOMAIN hiddenFiles : hiddenFiles[i].level <= 3

----------------------------------------------------------------------------
(* Properties of the hidden-file scanner: failures *)

WinScanDone == platform = "win32" /\ hiddenResult.status = "ok"
UnixScanDone == platform # "win32" /\ hiddenResult.status = "ok"

\* A file, or a directory that is passed over, cannot be stat'ed or cannot be
\* read: nothing below it is collected.
FailingPath(e) == e.kind = "file" \/ ~e.dot \/ ~e.statOk \/ ~e.readable

\* The dot-files in a listing that can be stat'ed.
RECURSIVE RootDotFiles(_)
RootDotFiles(entries) ==
    IF entries = <<>> THEN 0
    ELSE (IF Head(entries).kind = "file" /\ Head(entries).dot /\ Head(entries).statOk
          THEN Head(entries).n ELSE 0)
         + RootDotFiles(Tail(entries))

\* What a failing path contributes, and what the others still do.
PathFailuresAreSkipped ==
    /\ hiddenResult.status \in {"none", "scanning", "ok"}
    /\ WinScanDone =>
          /\ ~winFs.cmdStatOk => Contribution("cmd") = 0
          /\ (~winFs.nodeReadable \/ ~winFs.nodeStatOk) => Contribution("node") = 0
          /\ ~winFs.commonStatOk => Contribution("common") = 0
          /\ Contribution("common") <= Cardinality(winFs.commonAt)
          /\ Len(hiddenFiles) < maxFiles =>
                /\ winFs.cmdStatOk => Contribution("cmd") = Min(winFs.cmdN, maxFiles \div 4)
                /\ Contribution("ps") = winFs.psN
                /\ (winFs.nodeReadable /\ winFs.nodeStatOk)
                      => Contribution("node") = Min(winFs.nodeN, maxFiles \div 3)
                /\ winFs.commonStatOk
                      => Contribution("common") = Cardinality(winFs.commonAt)
    /\ UnixScanDone =>
          /\ ~unixFs.readable => hiddenFiles = <<>>
          /\ (\A i \in DOMAIN unixFs.entries : FailingPath(unixFs.entries[i]))
                => \A j \in DOMAIN hiddenFiles : hiddenFiles[j].level = 1
          /\ Len(hiddenFiles) < maxFiles =>
                Len(SelectSeq(hiddenFiles, LAMBDA f : f.level = 1 /\ ~f.isDirectory))
                  = RootDotFiles(unixFs.entries)

\* C26: a failing technique or path never aborts the scan, the result has no
\* error and holds what the others gathered, and a failed path or a
\* technique whose subprocess ended with an error contributes nothing.
C26_FailedTechniqueContributesNothing ==
    /\ PathFailuresAreSkipped
    /\ WinScanDone =>
          /\ winFs.cmdError => Contribution("cmd") = 0
          /\ winFs.psError => Contribution("ps") = 0

----------------------------------------------------------------------------
(* Properties of the event-log scanner: channels *)

EventScanDone == eventResult.status = "done" /\ platform = "win32"

RECURSIVE SummaryTotal(_)
SummaryTotal(summary) ==
    IF summary = <<>> THEN 0 ELSE Head(summary).n + SummaryTotal(Tail(summary))

EntriesOf(logName) ==
    Len(SelectSeq(eventResult.logs, LAMBDA e : e.logSource = logName))

\* C27: every channel's count in scanSummary is at most 20 and is the number
\* of the channel's entries in logs; totalEntries is the length of logs and
\* the sum of the counts; a channel whose query failed has count 0 and the
\* scan has no error.
C27_EntriesPerChannel ==
    EventScanDone =>
        /\ ~eventResult.error
        /\ eventResult.totalEntries = Len(eventResult.logs)
        /\ eventResult.totalEntries = SummaryTotal(eventResult.scanSummary)
        /\ \A i \in DOMAIN eventResult.scanSummary :
              LET c == eventResult.scanSummary[i]
              IN  /\ c.n <= 20
                  /\ c.n = EntriesOf(c.log)
                  /\ c.n <= Len(wevtutil.outputs[c.log].events)
                  /\ ~wevtutil.outputs[c.log].ok => c.n = 0
                  /\ \A j \in DOMAIN eventResult.scanSummary :
                        eventResult.scanSummary[j].log = c.log => j = i

\* The System query printed 21 events and the Security query failed: 20
\* entries of System, none of Security, and the entries of the other logs.
C27_Witness ==
    /\ EventScanDone
    /\ Len(wevtutil.outputs["System"].events) = 21
    /\ ~wevtutil.outputs["Security"].ok
    /\ Len(eventResult.scanSummary) = 5
    /\ eventResult.scanSummary[1] = [log |-> "System", n |-> 20]
    /\ eventResult.scanSummary[2] = [log |-> "Security", n |-> 0]
    /\ eventResult.totalEntries = 23

\* The channel is among the first 50 non-empty lines of the listing.
ListedInTime(lines, logName) ==
    \E i \in DOMAIN lines :
        /\ lines[i] = logName
        /\ Cardinality({ j \in 1..(i - 1) : lines[j] # "" }) < 50

Queried(logName) ==
    \E i \in DOMAIN eventResult.scanSummary : eventResult.scanSummary[i].log = logName

\* C30: a priority channel is queried, and has a scanSummary entry, exactly
\* when it is among the first 50 non-empty lines of the listing, or, when
\* the listing failed, when it is one of System, Security, Application.
C30_QueriedChannels ==
    EventScanDone =>
        /\ \A logName \in {"System", "Security", "Application", "Setup",
                            "Windows PowerShell"} :
              Queried(logName) <=>
                IF wevtutil.listed.ok
                THEN ListedInTime(wevtutil.listed.lines, logName)
                ELSE logName \in {"System", "Security", "Application"}
        /\ \A i \in DOMAIN eventResult.scanSummary :
              eventResult.scanSummary[i].log
                \in {"System", "Security", "Application", "Setup", "Windows PowerShell"}
        /\ eventResult.queries = 1 + Len(eventResult.scanSummary)

\* Security is the 50th non-empty line and System the 51st: Security is
\* queried, System is not.
C30_Witness ==
    /\ EventScanDone
    /\ wevtutil.listed.ok
    /\ \E i \in DOMAIN wevtutil.listed.lines : wevtutil.listed.lines[i] = "System"
    /\ ~Queried("System")
    /\ Queried("Security")
    /\ Queried("Application")

----------------------------------------------------------------------------
(* Properties of the scorer: free space *)

\* The bytes of the machine's volumes, as statfs reports them.
RECURSIVE MachineBytes(_, _)
MachineBytes(vols, field) ==
    IF vols = <<>> THEN 0
    ELSE LET v == Head(vols)
         IN  (IF v.kind = "ok" /\ v.statfs = "ok" THEN v[field] * v.bsize ELSE 0)
             + MachineBytes(Tail(vols), field)

\* free / total * 100 > 20, for total > 0
FreeShareAboveTwenty ==
    /\ MachineBytes(volumes, "blocks") > 0
    /\ MachineBytes(volumes, "bavail") * 100 > 20 * MachineBytes(volumes, "blocks")

\* C28: the score holds the 15 points of free space exactly when the free
\* bytes of all volumes are more than 20 percent of their total bytes, and
\* never when there is no volume or the total is 0.
C28_FreeSpaceContribution ==
    riskResult.status = "ok" =>
        LET f == riskResult.factors
            others == 50 + (IF f.swapFile.present THEN 20 ELSE 0)
                         + (IF f.snapshots.present THEN 25 ELSE 0)
                         - (IF f.encryption.enabled THEN 30 ELSE 0)
        IN  riskResult.score =
                Max(0, Min(100, others + (IF FreeShareAboveTwenty THEN 15 ELSE 0)))

====
